---------------------------- MODULE Spec2Model ----------------------------
(***************************************************************************)
(* Gait metrics of PfyMU/gait/gait_metrics/gait_metrics.py: the metric     *)
(* classes with their names and declared dependencies, their _predict      *)
(* bodies over the per-event table `gait` and the per-bout side data       *)
(* `gait_aux`, and the autocovariance routines.  The engine that resolves  *)
(* dependencies and the masking / asymmetry helpers live in                *)
(* PfyMU/gait/gait_metrics/base.py, which is not part of the sources at    *)
(* hand; they are modelled from the design document (sections 4.1 - 4.3).  *)
(*                                                                         *)
(* Units.  Sample indices are integers.  dt is kept in milliseconds, so    *)
(* that every duration (a sample difference times dt) is an integer number *)
(* of milliseconds.  Lengths are in millimetres.                           *)
(***************************************************************************)
EXTENDS Integers, Sequences, FiniteSets, TLC

VARIABLES
    pc,          \* "idle" | "start" | "running" | "done" | "failed" | "raised"
    error,       \* the exception that ended the run, "" when none
    registry,    \* registered descriptors: metric |-> list of dependencies
    requested,   \* the metrics the caller asked for
    dt,          \* sampling interval, milliseconds per sample
    leg_length,  \* None, or <<millimetres>>
    gait,        \* the event table: column key |-> column (one cell per row)
    gait_aux,    \* [accel, inertial_data_i, vert_axis]
    calls,       \* metric |-> number of times its _predict was invoked
    started,     \* the metrics whose _predict was invoked, in order
    acv,         \* scratch of the autocovariance library checks
    earlier,     \* the table the previous run of a sequence handed back, <<>> when none
    lib          \* scratch of the calls of the activity, preprocessing and sleep routines

vars == <<pc, error, registry, requested, dt, leg_length, gait, gait_aux,
          calls, started, acv, earlier, lib>>

---------------------------------------------------------------------------
(* Bounds of the model *)

\* rows (gait events) of a recording
MaxRows == 4
\* metrics requested together in one run
MaxRequested == 2

\* leg_length is None, or <<l>> for a leg of l millimetres
None == <<>>

---------------------------------------------------------------------------
(* Integer helpers *)

Abs(n) == IF n < 0 THEN -n ELSE n

Sign(n) == IF n < 0 THEN -1 ELSE IF n = 0 THEN 0 ELSE 1

Min(a, b) == IF a <= b THEN a ELSE b

Max(a, b) == IF a >= b THEN a ELSE b

RECURSIVE GCD(_, _)
GCD(a, b) == IF b = 0 THEN Abs(a) ELSE GCD(b, a % b)

RECURSIVE SumSeq(_)
SumSeq(s) == IF s = <<>> THEN 0 ELSE Head(s) + SumSeq(Tail(s))

\* floor of the square root of n >= 0, by bisection on lo <= root < hi
RECURSIVE ISqrtIn(_, _, _)
ISqrtIn(n, lo, hi) ==
    IF hi - lo <= 1 THEN lo
    ELSE LET mid == (lo + hi) \div 2
         IN  IF mid * mid <= n THEN ISqrtIn(n, mid, hi) ELSE ISqrtIn(n, lo, mid)

ISqrt(n) == ISqrtIn(n, 0, Min(n, 46339) + 1)

IsSquare(n) == n >= 0 /\ ISqrt(n) * ISqrt(n) = n

\* Python slice s[a:b] of a sequence (0-based, end exclusive, clipped)
Slice(s, a, b) ==
    LET lo == Max(a, 0)
        hi == Min(b, Len(s))
    IN  IF hi <= lo THEN <<>> ELSE [j \in 1..(hi - lo) |-> s[lo + j]]

---------------------------------------------------------------------------
(* Cells of a column.                                                      *)
(*   <<"nan", 0, 1>>   the missing-value sentinel (numpy nan)              *)
(*   <<"fin", n, d>>   the rational n/d in lowest terms, d > 0             *)
(*   <<"inf", s, 1>>   s * infinity (a non-zero number divided by zero)    *)
(*   <<"sqrt", n, d>>  Sign(n) * sqrt(|n|/d), |n|/d in lowest terms and    *)
(*                     not the square of a rational                        *)

NaN == <<"nan", 0, 1>>

Rat(n, d) ==
    LET g == GCD(n, d)
        s == IF d < 0 THEN -1 ELSE 1
    IN  <<"fin", s * (n \div g), s * (d \div g)>>

Fin(n) == <<"fin", n, 1>>

IsNaN(c) == c[1] = "nan"

IsFinite(c) == c[1] \in {"fin", "sqrt", "pci", "absdiff", "ratio"}

\* float arithmetic on cells: nan propagates
Sub(a, b) ==
    IF a[1] # "fin" \/ b[1] # "fin" THEN NaN
    ELSE Rat(a[2] * b[3] - b[2] * a[3], a[3] * b[3])

Add(a, b) ==
    IF a[1] # "fin" \/ b[1] # "fin" THEN NaN
    ELSE Rat(a[2] * b[3] + b[2] * a[3], a[3] * b[3])

\* numpy true division: x/0 is +-inf, 0/0 is nan (a warning, no exception)
Div(a, b) ==
    IF a[1] # "fin" \/ b[1] # "fin" THEN NaN
    ELSE IF b[2] = 0 THEN (IF a[2] = 0 THEN NaN ELSE <<"inf", Sign(a[2]), 1>>)
    ELSE Rat(a[2] * b[3], a[3] * b[2])

AbsCell(a) == IF a[1] = "fin" THEN <<"fin", Abs(a[2]), a[3]>> ELSE a

AbsDiff(a, b) == AbsCell(Sub(a, b))

\* a column of n sentinels: full(gait['IC'].size, nan)
FullNaN(n) == [i \in 1..n |-> NaN]

---------------------------------------------------------------------------
(* The metric classes of gait_metrics.py (__all__), by class name *)

EventMetrics ==
    {"StrideTime", "StanceTime", "SwingTime", "StepTime", "InitialDoubleSupport",
     "TerminalDoubleSupport", "DoubleSupport", "SingleSupport", "StepLength",
     "StrideLength", "GaitSpeed", "Cadence", "IntraStrideCovariance",
     "IntraStepCovariance", "HarmonicRatioV"}

BoutMetrics ==
    {"PhaseCoordinationIndex", "GaitSymmetryIndex", "StepRegularityV",
     "StrideRegularityV", "AutocorrelationSymmetryV"}

Metrics == EventMetrics \cup BoutMetrics

\* the base class each metric derives from
Kind(m) == IF m \in BoutMetrics THEN "BoutMetric" ELSE "EventMetric"

\* the name each class passes to super().__init__
NameTable(m) ==
    CASE m = "StrideTime"               -> "stride time"
      [] m = "StanceTime"               -> "stance time"
      [] m = "SwingTime"                -> "swing time"
      [] m = "StepTime"                 -> "step time"
      [] m = "InitialDoubleSupport"     -> "initial double support"
      [] m = "TerminalDoubleSupport"    -> "terminal double support"
      [] m = "DoubleSupport"            -> "double support"
      [] m = "SingleSupport"            -> "single support"
      [] m = "StepLength"               -> "step length"
      [] m = "StrideLength"             -> "stride length"
      [] m = "GaitSpeed"                -> "gait speed"
      [] m = "Cadence"                  -> "cadence"
      [] m = "IntraStrideCovariance"    -> "intra-stride covariance - V"
      [] m = "IntraStepCovariance"      -> "step regularity - V"
      [] m = "HarmonicRatioV"           -> "harmonic ratio - V"
      [] m = "PhaseCoordinationIndex"   -> "phase coordination index"
      [] m = "GaitSymmetryIndex"        -> "gait symmetry index"
      [] m = "StepRegularityV"          -> "step regularity - V"
      [] m = "StrideRegularityV"        -> "stride regularity - V"
      [] m = "AutocorrelationSymmetryV" -> "autocorrelation symmetry - V"
      [] OTHER                          -> m

\* a renamed class: StrideLength constructed with StepLength's name
NameCollides(m) == IF m = "StrideLength" THEN "step length" ELSE NameTable(m)

Name(m) == NameTable(m)

\* self.k_, the column a metric stores into: the bodies read event-level results
\* as gait['PARAM:<name>'] and bout-level ones as gait['BOUTPARAM:<name>']
Key(m) == (IF Kind(m) = "BoutMetric" THEN "BOUTPARAM:" ELSE "PARAM:") \o Name(m)

\* the paired column written by the basic_asymmetry wrapper
AsyKey(m) == Key(m) \o " asymmetry"

\* depends=[...] of each class, in declaration order
DependsTable(m) ==
    CASE m = "DoubleSupport"            -> <<"InitialDoubleSupport", "TerminalDoubleSupport">>
      [] m = "StrideLength"             -> <<"StepLength">>
      [] m = "GaitSpeed"                -> <<"StrideLength", "StrideTime">>
      [] m = "Cadence"                  -> <<"StepTime">>
      [] m = "HarmonicRatioV"           -> <<"StrideTime">>
      [] m = "StepRegularityV"          -> <<"StepTime">>
      [] m = "StrideRegularityV"        -> <<"StrideTime">>
      [] m = "AutocorrelationSymmetryV" -> <<"StepRegularityV", "StrideRegularityV">>
      [] OTHER                          -> <<>>

\* GaitSpeed declared without its StrideLength dependency
DependsShort(m) == IF m = "GaitSpeed" THEN <<"StrideTime">> ELSE DependsTable(m)

Depends(m) == DependsTable(m)

\* the classes whose _predict carries the @basic_asymmetry decorator
HasAsymmetry(m) ==
    m \in {"StrideTime", "StanceTime", "SwingTime", "StepTime",
           "InitialDoubleSupport", "TerminalDoubleSupport", "DoubleSupport",
           "SingleSupport", "StepLength", "StrideLength", "GaitSpeed"}

---------------------------------------------------------------------------
(* Recordings.  A recording is laid out as a list of bout lengths; the     *)
(* events of a bout are consecutive rows.  Sample indices are relative to  *)
(* the bout's own acceleration array, as the bodies index it               *)
(* (gait_aux['accel'][bout][IC...]).  The values follow fixed irregular    *)
(* patterns, varied by `seed`; profile "short" has strides of a few        *)
(* samples, profile "long" strides of 50 samples.                          *)

Profiles == {"short", "long"}

Seeds == {0, 1}

Layouts ==
    {s \in UNION {[1..k -> 1..MaxRows] : k \in 1..MaxRows} : SumSeq(s) <= MaxRows}

\* the bout of each row (gait_aux['inertial data i']); bouts are numbered from 1
RECURSIVE BoutIndex(_, _)
BoutIndex(lens, b) ==
    IF lens = <<>> THEN <<>>
    ELSE [i \in 1..Head(lens) |-> b] \o BoutIndex(Tail(lens), b + 1)

\* the position of each row within its bout, from 1
RECURSIVE PosIndex(_)
PosIndex(lens) ==
    IF lens = <<>> THEN <<>>
    ELSE [i \in 1..Head(lens) |-> i] \o PosIndex(Tail(lens))

\* samples between event p and event p+1 of bout b
StepSamples(profile, seed, b, p) ==
    IF profile = "long" THEN 25
    ELSE IF (b + p + seed) % 2 = 0 THEN 2 ELSE 3

RECURSIVE SampleOfIC(_, _, _, _)
SampleOfIC(profile, seed, b, p) ==
    IF p = 1 THEN b - 1
    ELSE SampleOfIC(profile, seed, b, p - 1) + StepSamples(profile, seed, b, p - 1)

SampleOfFC(profile, seed, b, p) ==
    SampleOfIC(profile, seed, b, p) + StepSamples(profile, seed, b, p) + 1 + ((p + seed) % 2)

SampleOfFCOpp(profile, seed, b, p) ==
    SampleOfIC(profile, seed, b, p) + (IF profile = "long" THEN 5 ELSE 1)

DeltaH(seed, b, p) == 20 + 10 * ((b + p + seed) % 3)

\* one acceleration sample (axis a = 0..2, sample j from 0) of bout b
Sample(profile, seed, b, a, j) ==
    LET k == j + a
    IN  IF profile = "long" THEN (IF k % 25 < 12 THEN 1 ELSE 0)
        ELSE IF k % 2 = 0 THEN 0 ELSE 1 + (((k \div 2) + b + seed) % 2)

AccelLen(profile, seed, b, len) ==
    SampleOfIC(profile, seed, b, len) + (IF profile = "long" THEN 30 ELSE 4)

\* the input columns of the event table
InputKeys == {"IC", "FC", "FC opp foot", "delta h"}

MakeGait(layout, profile, seed) ==
    LET bout == BoutIndex(layout, 1)
        pos  == PosIndex(layout)
        n    == Len(bout)
    IN  [k \in InputKeys |->
            [i \in 1..n |->
                CASE k = "IC" -> SampleOfIC(profile, seed, bout[i], pos[i])
                  [] k = "FC" -> SampleOfFC(profile, seed, bout[i], pos[i])
                  [] k = "FC opp foot" -> SampleOfFCOpp(profile, seed, bout[i], pos[i])
                  [] OTHER -> DeltaH(seed, bout[i], pos[i])]]

MakeAux(layout, profile, seed) ==
    [accel |-> [b \in 1..Len(layout) |->
                   [j \in 1..AccelLen(profile, seed, b, layout[b]) |->
                       [a \in 1..3 |-> Sample(profile, seed, b, a - 1, j - 1)]]],
     inertial_data_i |-> BoutIndex(layout, 1),
     vert_axis |-> seed + 1]

---------------------------------------------------------------------------
(* Event-row masking and the table (base.py, modelled from sections 4.2    *)
(* and 4.3 of the design document)                                         *)

NRows(g) == Len(g["IC"])

\* build_offset_mask: row i is eligible iff row i+offset exists in the same bout
Eligible(bout, i, offset) ==
    /\ i + offset <= Len(bout)
    /\ bout[i + offset] = bout[i]

\* _predict_init(gait, True, offset) followed by gait[k_][mask] = f(row):
\* sentinel everywhere, then the eligible rows
Masked(bout, offset, f(_)) ==
    [i \in 1..Len(bout) |-> IF Eligible(bout, i, offset) THEN f(i) ELSE NaN]

Put(g, k, col) == (k :> col) @@ g

\* the result of a body: the exception it raised ("" for none) and the table
Ok(g) == [err |-> "", gait |-> g]

Raise(e, g) == [err |-> e, gait |-> g]

\* an asymmetry column taken against the following event instead of the earlier one
AsymmetryNext(bout, col) ==
    [i \in 1..Len(col) |->
        IF Eligible(bout, i, 1) THEN AbsDiff(col[i + 1], col[i]) ELSE NaN]

\* the asymmetry column of a filled column: the absolute difference to the value
\* one event earlier in the same bout, sentinel where there is no such event
Asymmetry(bout, col) ==
    [i \in 1..Len(col) |->
        IF i > 1 /\ Eligible(bout, i - 1, 1) THEN AbsDiff(col[i], col[i - 1]) ELSE NaN]

---------------------------------------------------------------------------
(* Event-level metrics: each _predict(dt, leg_length, gait, gait_aux),     *)
(* without its decorator.  A body that reads a column the table does not   *)
(* hold raises KeyError.                                                   *)

StrideTime(dt_, leg, g, aux) ==
    LET IC == g["IC"]
    IN  Ok(Put(g, Key("StrideTime"),
               Masked(aux.inertial_data_i, 2, LAMBDA i : Fin((IC[i + 2] - IC[i]) * dt_))))

StanceTime(dt_, leg, g, aux) ==
    Ok(Put(g, Key("StanceTime"),
           [i \in 1..NRows(g) |-> Fin((g["FC"][i] - g["IC"][i]) * dt_)]))

\* a swing that ends at the next initial contact, of the other foot
SwingTimeToNextContact(dt_, leg, g, aux) ==
    LET IC == g["IC"]
        FC == g["FC"]
    IN  Ok(Put(g, Key("SwingTime"),
               Masked(aux.inertial_data_i, 2, LAMBDA i : Fin((IC[i + 1] - FC[i]) * dt_))))

SwingTime(dt_, leg, g, aux) ==
    LET IC == g["IC"]
        FC == g["FC"]
    IN  Ok(Put(g, Key("SwingTime"),
               Masked(aux.inertial_data_i, 2, LAMBDA i : Fin((IC[i + 2] - FC[i]) * dt_))))

StepTimeStride(dt_, leg, g, aux) ==
    LET IC == g["IC"]
    IN  Ok(Put(g, Key("StepTime"),
               Masked(aux.inertial_data_i, 2, LAMBDA i : Fin((IC[i + 2] - IC[i]) * dt_))))

StepTime(dt_, leg, g, aux) ==
    LET IC == g["IC"]
    IN  Ok(Put(g, Key("StepTime"),
               Masked(aux.inertial_data_i, 1, LAMBDA i : Fin((IC[i + 1] - IC[i]) * dt_))))

InitialDoubleSupport(dt_, leg, g, aux) ==
    Ok(Put(g, Key("InitialDoubleSupport"),
           [i \in 1..NRows(g) |-> Fin((g["FC opp foot"][i] - g["IC"][i]) * dt_)]))

TerminalDoubleSupport(dt_, leg, g, aux) ==
    LET IC  == g["IC"]
        FCO == g["FC opp foot"]
    IN  Ok(Put(g, Key("TerminalDoubleSupport"),
               Masked(aux.inertial_data_i, 1, LAMBDA i : Fin((FCO[i + 1] - IC[i + 1]) * dt_))))

\* a double support accumulated in place into the initial double support column
DoubleSupportInPlace(dt_, leg, g, aux) ==
    IF ~ ({"PARAM:initial double support", "PARAM:terminal double support"} \subseteq DOMAIN g)
    THEN Raise("KeyError", g)
    ELSE LET ds == [i \in 1..NRows(g) |->
                       Add(g["PARAM:initial double support"][i],
                           g["PARAM:terminal double support"][i])]
         IN  Ok(Put(Put(g, "PARAM:initial double support", ds), Key("DoubleSupport"), ds))

DoubleSupport(dt_, leg, g, aux) ==
    IF ~ ({"PARAM:initial double support", "PARAM:terminal double support"} \subseteq DOMAIN g)
    THEN Raise("KeyError", g)
    ELSE Ok(Put(g, Key("DoubleSupport"),
                [i \in 1..NRows(g) |->
                    Add(g["PARAM:initial double support"][i],
                        g["PARAM:terminal double support"][i])]))

SingleSupport(dt_, leg, g, aux) ==
    LET IC  == g["IC"]
        FCO == g["FC opp foot"]
    IN  Ok(Put(g, Key("SingleSupport"),
               Masked(aux.inertial_data_i, 1, LAMBDA i : Fin((IC[i + 1] - FCO[i]) * dt_))))

\* 2 * sqrt(2 * leg_length * h - h**2) in whole millimetres (rounded down);
\* numpy's sqrt of a negative number is nan
InvertedPendulum(leg, h) ==
    LET rad == 2 * leg * h - h * h
    IN  IF rad < 0 THEN NaN ELSE Fin(ISqrt(4 * rad))

StepLength(dt_, leg, g, aux) ==
    IF leg # None
    THEN Ok(Put(g, Key("StepLength"),
                [i \in 1..NRows(g) |-> InvertedPendulum(leg[1], g["delta h"][i])]))
    ELSE Ok(Put(g, Key("StepLength"), FullNaN(NRows(g))))

StrideLength(dt_, leg, g, aux) ==
    LET init == Put(g, Key("StrideLength"), FullNaN(NRows(g)))
    IN  IF leg = None THEN Ok(init)
        ELSE IF "PARAM:step length" \notin DOMAIN init THEN Raise("KeyError", init)
        ELSE LET sl == init["PARAM:step length"]
             IN  Ok(Put(g, Key("StrideLength"),
                        Masked(aux.inertial_data_i, 1, LAMBDA i : Add(sl[i + 1], sl[i]))))

\* stride length [mm] / stride time [ms] is a speed in m/s
\* a speed computed as time over length
GaitSpeedInverse(dt_, leg, g, aux) ==
    IF leg = None THEN Ok(Put(g, Key("GaitSpeed"), FullNaN(NRows(g))))
    ELSE IF ~ ({"PARAM:stride length", "PARAM:stride time"} \subseteq DOMAIN g)
    THEN Raise("KeyError", g)
    ELSE Ok(Put(g, Key("GaitSpeed"),
                [i \in 1..NRows(g) |->
                    Div(g["PARAM:stride time"][i], g["PARAM:stride length"][i])]))

GaitSpeed(dt_, leg, g, aux) ==
    IF leg = None THEN Ok(Put(g, Key("GaitSpeed"), FullNaN(NRows(g))))
    ELSE IF ~ ({"PARAM:stride length", "PARAM:stride time"} \subseteq DOMAIN g)
    THEN Raise("KeyError", g)
    ELSE Ok(Put(g, Key("GaitSpeed"),
                [i \in 1..NRows(g) |->
                    Div(g["PARAM:stride length"][i], g["PARAM:stride time"][i])]))

\* 60.0 / step time [s], with the step time held in milliseconds
Cadence(dt_, leg, g, aux) ==
    IF "PARAM:step time" \notin DOMAIN g THEN Raise("KeyError", g)
    ELSE Ok(Put(g, Key("Cadence"),
                [i \in 1..NRows(g) |-> Div(Fin(60000), g["PARAM:step time"][i])]))

---------------------------------------------------------------------------
(* The autocovariance routines.  Signals hold integers, so every result is *)
(* the signed square root of a rational, kept exactly.                     *)

\* n * (w[j] - mean(w)) for a window w of n samples
Centered(w) == [j \in 1..Len(w) |-> Len(w) * w[j] - SumSeq(w)]

Dot(u, v) == SumSeq([j \in 1..Len(u) |-> u[j] * v[j]])

\* the product of two rationals in lowest terms, cancelling before multiplying
RatMul(x, y) ==
    LET g1 == GCD(x[2], y[3])
        g2 == GCD(y[2], x[3])
    IN  <<"fin", (x[2] \div g1) * (y[2] \div g2), (x[3] \div g2) * (y[3] \div g1)>>

\* the cell of sgn * sqrt(q) for a rational q >= 0 in lowest terms
QNorm(sgn, q) ==
    IF sgn = 0 \/ q[2] = 0 THEN Fin(0)
    ELSE IF IsSquare(q[2]) /\ IsSquare(q[3]) THEN Rat(sgn * ISqrt(q[2]), ISqrt(q[3]))
    ELSE <<"sqrt", sgn * q[2], q[3]>>

\* S * (kn/kd) / sqrt(P1 * P2); 0/0 is nan
Normalised(S, kn, kd, P1, P2) ==
    IF P1 = 0 \/ P2 = 0 THEN NaN
    ELSE LET k == Rat(kn, kd)
         IN  QNorm(Sign(S),
                   RatMul(RatMul(Rat(Abs(S), P1), Rat(Abs(S), P2)), RatMul(k, k)))

\* sum((w1 - mean(w1)) * (w2 - mean(w2))) / (D * std(w1, ddof=1) * std(w2, ddof=1))
\* for two windows of the same length n; a one-sample window has std nan
WindowCov(w1, w2, D) ==
    LET n == Len(w1)
    IN  IF n <= 1 THEN NaN
        ELSE Normalised(Dot(Centered(w1), Centered(w2)), n - 1, D,
                        Dot(Centered(w1), Centered(w1)), Dot(Centered(w2), Centered(w2)))

\* the outcome of a call that raised ValueError, in place of its value
RaisedValueError == <<"ValueError", 0, 1>>

\* x[:, a] of a 2-D signal (a from 1)
Column(x, a) == [j \in 1..Len(x) |-> x[j][a]]

\* x.ravel() of a 2-D signal
RECURSIVE Flat(_)
Flat(x) == IF x = <<>> THEN <<>> ELSE Head(x) \o Flat(Tail(x))

\* one lag of _autocovariancefunction on a 1-D signal.  Past the end of the
\* signal x[i:] is empty while x[:N-i] counts from the end: the two do not
\* broadcast (ValueError) unless x[:N-i] holds one sample or none
AcfEntry1(x, i, biased) ==
    LET N == Len(x)
    IN  IF i <= N
        THEN WindowCov(Slice(x, 0, N - i), Slice(x, i, N), IF biased THEN N ELSE N - i)
        ELSE IF i >= 2 * N - 1 THEN NaN
        ELSE RaisedValueError

\* one lag of _autocovariancefunction on a 2-D signal, per axis: the means are
\* taken along axis 0 but the two std calls carry no axis, so each is the
\* standard deviation of all the samples of all axes of the sub-window
AcfEntry2(x, i, biased) ==
    LET N  == Len(x)
        A  == Len(x[1])
        n  == N - i
        M  == n * A
        f1 == Flat(Slice(x, 0, N - i))
        f2 == Flat(Slice(x, i, N))
        D  == IF biased THEN N ELSE N - i
    IN  [a \in 1..A |->
            IF M <= 1 THEN NaN
            ELSE Normalised(Dot(Centered(Slice(Column(x, a), 0, N - i)),
                                Centered(Slice(Column(x, a), i, N))),
                            A * A * (M - 1), D,
                            Dot(Centered(f1), Centered(f1)),
                            Dot(Centered(f2), Centered(f2)))]

\* _autocovariancefunction(x, max_lag, biased): entries for lags 0 .. max_lag-1
_autocovariancefunction_1d(x, max_lag, biased) ==
    [l \in 1..max_lag |-> AcfEntry1(x, l - 1, biased)]

_autocovariancefunction_2d(x, max_lag, biased) ==
    [l \in 1..max_lag |-> AcfEntry2(x, l - 1, biased)]

\* _autocovariance_lag(x, lag, biased), 1-D and 2-D (axis=0 throughout)
_autocovariance_lag_1d(x, lag, biased) ==
    LET N == Len(x)
    IN  WindowCov(Slice(x, 0, N - lag), Slice(x, lag, N), IF biased THEN N ELSE N - lag)

_autocovariance_lag_2d(x, lag, biased) ==
    [a \in 1..Len(x[1]) |-> _autocovariance_lag_1d(Column(x, a), lag, biased)]

\* _autocovariance(x, i1, i2, i3, biased) for 0 <= i1 < i2 < i3.  Windows of
\* different lengths do not broadcast (ValueError) unless one holds a single
\* sample, whose std is nan
_autocovariance(x, i1, i2, i3, biased) ==
    IF i3 > Len(x) THEN NaN
    ELSE LET N  == i3 - i1
             m  == i2 - i1
             w1 == Slice(x, i1, i2)
             w2 == Slice(x, i2, i3)
         IN  IF Len(w1) = Len(w2) THEN WindowCov(w1, w2, IF biased THEN N ELSE N - m)
             ELSE IF Len(w1) = 1 \/ Len(w2) = 1 THEN NaN
             ELSE RaisedValueError

---------------------------------------------------------------------------
(* Covariance and spectral event-level metrics *)

\* a column filled row by row until a row raises: the rows before it keep their
\* values, the others the sentinel of _predict_init
FirstRaising(cells) ==
    IF \E i \in 1..Len(cells) : cells[i] = RaisedValueError
    THEN CHOOSE i \in 1..Len(cells) :
            /\ cells[i] = RaisedValueError
            /\ \A j \in 1..(i - 1) : cells[j] # RaisedValueError
    ELSE 0

UpTo(cells, r) == [i \in 1..Len(cells) |-> IF i < r THEN cells[i] ELSE NaN]

\* the shared body of IntraStrideCovariance (offset 2) and IntraStepCovariance
\* (offset 1): i1 = IC[i], i2 = IC[i+offset], i3 = i2 + (i2 - i1), unbiased
IntraCovariance(m, offset, g, aux) ==
    LET IC    == g["IC"]
        bout  == aux.inertial_data_i
        cells == Masked(bout, offset,
                        LAMBDA i : _autocovariance(Column(aux.accel[bout[i]], aux.vert_axis),
                                                   IC[i], IC[i + offset],
                                                   IC[i + offset] + (IC[i + offset] - IC[i]),
                                                   FALSE))
        r     == FirstRaising(cells)
    IN  IF r = 0 THEN Ok(Put(g, Key(m), cells))
        ELSE Raise("ValueError", Put(g, Key(m), UpTo(cells, r)))

IntraStrideCovariance(dt_, leg, g, aux) == IntraCovariance("IntraStrideCovariance", 2, g, aux)

\* the step covariance taken over strides
IntraStepAsStride(dt_, leg, g, aux) == IntraCovariance("IntraStepCovariance", 2, g, aux)

IntraStepCovariance(dt_, leg, g, aux) == IntraCovariance("IntraStepCovariance", 1, g, aux)

\* fft.rfft(..., n=1024) yields 513 bins, fft.rfftfreq(1024)[k] = k / 1024
NFFT == 1024

NBins == 513

NHarmonics == 20

\* argmin(abs(self._freq / dt - 1 / stride_time)): the bin k in 0 .. 512 nearest
\* to 1024 * dt / stride_time, the lower one on a tie (argmin keeps the first)
StrideBin(dt_, st) ==
    LET q == (NFFT * dt_) \div st
        r == (NFFT * dt_) % st
        k == IF 2 * r > st THEN q + 1 ELSE q
    IN  Min(k, NBins - 1)

\* the cell of sum(F[even harmonics]) / sum(F[odd harmonics]); the magnitude
\* spectrum F is numpy's: the cell names the window and the fundamental bin.
\* An all-zero window has F = 0 and the ratio 0/0
HarmonicCell(w, k, b, i1, i2) ==
    IF \A j \in 1..Len(w) : w[j] = 0 THEN NaN
    ELSE IF k = 0 THEN Fin(1)
    ELSE <<"ratio", k, b, i1, i2>>

HarmonicRatioV(dt_, leg, g, aux) ==
    LET IC    == g["IC"]
        bout  == aux.inertial_data_i
        init  == Put(g, Key("HarmonicRatioV"), FullNaN(NRows(g)))
        rows  == {i \in 1..NRows(g) : Eligible(bout, i, 2)}
    IN  IF rows = {} THEN Ok(init)
        ELSE IF "PARAM:stride time" \notin DOMAIN g THEN Raise("KeyError", init)
        ELSE LET st(i)  == g["PARAM:stride time"][i][2]
                 bin(i) == StrideBin(dt_, st(i))
                 bad    == {i \in rows : NHarmonics * bin(i) > NBins - 1}
                 r      == IF bad = {} THEN 0
                           ELSE CHOOSE i \in bad : \A j \in bad : i <= j
                 cells  == Masked(bout, 2,
                               LAMBDA i : HarmonicCell(
                                   Slice(Column(aux.accel[bout[i]], aux.vert_axis),
                                         IC[i], Min(IC[i + 2], IC[i] + NFFT)),
                                   bin(i), bout[i], IC[i], IC[i + 2]))
             IN  IF r = 0 THEN Ok(Put(g, Key("HarmonicRatioV"), cells))
                 ELSE Raise("IndexError", Put(g, Key("HarmonicRatioV"), UpTo(cells, r)))

---------------------------------------------------------------------------
(* Bout-level metrics *)

\* the square of a cell's magnitude, as a rational, and its sign
SquareOf(c) == IF c[1] = "sqrt" THEN <<"fin", Abs(c[2]), c[3]>> ELSE RatMul(c, c)

SignOf(c) == Sign(c[2])

\* a < b on cells; every comparison with nan is false
Less(a, b) ==
    IF ~ (a[1] \in {"fin", "sqrt"} /\ b[1] \in {"fin", "sqrt"}) THEN FALSE
    ELSE IF SignOf(a) # SignOf(b) THEN SignOf(a) < SignOf(b)
    ELSE LET qa == SquareOf(a)
             qb == SquareOf(b)
         IN  IF SignOf(a) > 0 THEN qa[2] * qb[3] < qb[2] * qa[3]
             ELSE IF SignOf(a) < 0 THEN qa[2] * qb[3] > qb[2] * qa[3]
             ELSE FALSE

\* scipy.signal.find_peaks(x)[0] (_local_maxima_1d): the 0-based indices of the
\* strict local maxima, a flat maximum being reported at the middle of its plateau
RECURSIVE PlateauEnd(_, _)
PlateauEnd(x, a) ==
    IF a < Len(x) - 1 /\ x[a + 1] = x[a] /\ ~ IsNaN(x[a]) THEN PlateauEnd(x, a + 1) ELSE a

RECURSIVE LocalMaxima(_, _)
LocalMaxima(x, i) ==
    IF i >= Len(x) - 1 THEN <<>>
    ELSE IF Less(x[i], x[i + 1])
         THEN LET ahead == PlateauEnd(x, i + 1) + 1
              IN  IF ahead <= Len(x) /\ Less(x[ahead], x[i + 1])
                  THEN <<(i + (ahead - 2)) \div 2>> \o LocalMaxima(x, ahead)
                  ELSE LocalMaxima(x, i + 1)
         ELSE LocalMaxima(x, i + 1)

find_peaks(x) == LocalMaxima(x, 1)

\* argmin(abs(pks - lag)): the 0-based position in pks of the first nearest entry
ArgminAbs(pks, lag) ==
    (CHOOSE j \in 1..Len(pks) :
        /\ \A k \in 1..Len(pks) : Abs(pks[j] - lag) <= Abs(pks[k] - lag)
        /\ \A k \in 1..(j - 1) : Abs(pks[k] - lag) > Abs(pks[j] - lag)) - 1

\* int(4.5 * dt) with dt in seconds, for dt held in milliseconds
MaxLag(dt_) == (45 * dt_) \div 10000

\* numpy round of n/d (d > 0, n >= 0): to the nearest integer, halves to even
RoundHalfEven(n, d) ==
    LET q == n \div d
        r == n % d
    IN  IF 2 * r < d THEN q
        ELSE IF 2 * r > d THEN q + 1
        ELSE IF q % 2 = 0 THEN q ELSE q + 1

\* the rows of a bout
RowsOf(aux, b) == {i \in 1..Len(aux.inertial_data_i) : aux.inertial_data_i[i] = b}

\* the finite entries of a column on the rows of bout b, in row order
RECURSIVE FiniteOf(_, _, _, _)
FiniteOf(col, aux, b, i) ==
    IF i > Len(col) THEN <<>>
    ELSE (IF aux.inertial_data_i[i] = b /\ col[i][1] = "fin" THEN <<col[i]>> ELSE <<>>)
         \o FiniteOf(col, aux, b, i + 1)

RECURSIVE SumCells(_)
SumCells(cs) == IF cs = <<>> THEN Fin(0) ELSE Add(Head(cs), SumCells(Tail(cs)))

\* int(round(nanmean(column[bout rows]) / dt)); -1 stands for the ValueError of
\* int(nan) when the bout has no finite entry
MeanLag(col, aux, b, dt_) ==
    LET vals == FiniteOf(col, aux, b, 1)
        tot  == SumCells(vals)
    IN  IF vals = <<>> THEN -1
        ELSE RoundHalfEven(tot[2], tot[3] * Len(vals) * dt_)

\* one bout of StepRegularityV / StrideRegularityV: the value stored for the
\* bout, or RaisedValueError.  idx is a position in pks and indexes acf as is
RegularityOfBout(col, aux, b, dt_) ==
    LET lag == MeanLag(col, aux, b, dt_)
        acf == _autocovariancefunction_1d(Column(aux.accel[b], aux.vert_axis), MaxLag(dt_), FALSE)
        pks == find_peaks(acf)
    IN  IF lag < 0 THEN RaisedValueError
        ELSE IF \E l \in 1..Len(acf) : acf[l] = RaisedValueError THEN RaisedValueError
        ELSE IF pks = <<>> THEN RaisedValueError
        ELSE acf[ArgminAbs(pks, lag) + 1]

\* the value of the first bout spread over every row
BroadcastFirstBout(values, aux) == [i \in 1..Len(aux.inertial_data_i) |-> values[1]]

\* values[gait_aux['inertial data i']]: one value per bout spread over its rows
Broadcast(values, aux) == [i \in 1..Len(aux.inertial_data_i) |-> values[aux.inertial_data_i[i]]]

Regularity(m, dep, g, aux, dt_) ==
    IF Len(aux.accel) > 0 /\ dep \notin DOMAIN g THEN Raise("KeyError", g)
    ELSE LET perbout == [b \in 1..Len(aux.accel) |-> RegularityOfBout(g[dep], aux, b, dt_)]
         IN  IF \E b \in 1..Len(aux.accel) : perbout[b] = RaisedValueError
             THEN Raise("ValueError", g)
             ELSE Ok(Put(g, Key(m), Broadcast(perbout, aux)))

StepRegularityV(dt_, leg, g, aux) == Regularity("StepRegularityV", "PARAM:step time", g, aux, dt_)

StrideRegularityV(dt_, leg, g, aux) == Regularity("StrideRegularityV", "PARAM:stride time", g, aux, dt_)

\* abs(a - b) on autocovariance cells; the difference of two irrational cells is
\* kept as the pair it is the distance of
AbsDiffQ(a, b) ==
    IF ~ (a[1] \in {"fin", "sqrt"} /\ b[1] \in {"fin", "sqrt"}) THEN NaN
    ELSE IF a[1] = "fin" /\ b[1] = "fin" THEN AbsDiff(a, b)
    ELSE IF a = b THEN Fin(0)
    ELSE IF Less(a, b) THEN <<"absdiff", a, b>> ELSE <<"absdiff", b, a>>

AutocorrelationSymmetryV(dt_, leg, g, aux) ==
    IF ~ ({"BOUTPARAM:step regularity - V", "BOUTPARAM:stride regularity - V"} \subseteq DOMAIN g)
    THEN Raise("KeyError", g)
    ELSE Ok(Put(g, Key("AutocorrelationSymmetryV"),
                [i \in 1..NRows(g) |->
                    AbsDiffQ(g["BOUTPARAM:step regularity - V"][i],
                             g["BOUTPARAM:stride regularity - V"][i])]))

\* the phase coordination index of the finite phases ps of one bout:
\* 100 * (nanstd(ps, ddof=1) / nanmean(ps) + nanmean(abs(ps - 0.5)) / 0.5),
\* kept as <<"pci", cv, mad>> for 100 * (cv + mad / 0.5).  With fewer than two
\* finite phases nanstd (ddof=1) is nan
RECURSIVE SumSquaredDev(_, _)
SumSquaredDev(ps, mean) ==
    IF ps = <<>> THEN Fin(0)
    ELSE Add(RatMul(Sub(Head(ps), mean), Sub(Head(ps), mean)), SumSquaredDev(Tail(ps), mean))

RECURSIVE SumAbsDev(_, _)
SumAbsDev(ps, c) ==
    IF ps = <<>> THEN Fin(0) ELSE Add(AbsDiff(Head(ps), c), SumAbsDev(Tail(ps), c))

PciOfPhases(ps) ==
    LET n    == Len(ps)
        mean == Div(SumCells(ps), Fin(n))
        var  == Div(SumSquaredDev(ps, mean), Fin(n - 1))
        cv2  == Div(var, RatMul(mean, mean))
        mad  == Div(SumAbsDev(ps, Rat(1, 2)), Fin(n))
    IN  IF n < 2 \/ cv2[1] # "fin" THEN NaN
        ELSE <<"pci", QNorm(1, cv2), mad>>

PhaseCoordinationIndex(dt_, leg, g, aux) ==
    IF ~ ({"PARAM:step time", "PARAM:stride time"} \subseteq DOMAIN g)
    THEN Raise("KeyError", g)
    ELSE LET phase == [i \in 1..NRows(g) |->
                          Div(g["PARAM:step time"][i], g["PARAM:stride time"][i])]
             pci   == [b \in 1..Len(aux.accel) |-> PciOfPhases(FiniteOf(phase, aux, b, 1))]
         IN  Ok(Put(g, Key("PhaseCoordinationIndex"), Broadcast(pci, aux)))

\* butter(4, 2 * 10 * dt) rejects a critical frequency outside 0 < Wn < 1
\* (ValueError), so the bouts are only reached with dt < 0.05 s.  There the body
\* reads the stride time column, and then every path raises ValueError: int(nan)
\* for a bout without a finite stride time, sosfiltfilt on a bout shorter than
\* its padding, and otherwise argmin over the peaks of an autocovariance of
\* int(4.5 * dt) = 0 lags
GaitSymmetryIndex(dt_, leg, g, aux) ==
    IF 2 * 10 * dt_ >= 1000 THEN Raise("ValueError", g)
    ELSE IF Len(aux.accel) = 0 THEN Ok(Put(g, Key("GaitSymmetryIndex"), <<>>))
    ELSE IF "PARAM:stride time" \notin DOMAIN g THEN Raise("KeyError", g)
    ELSE Raise("ValueError", g)

---------------------------------------------------------------------------
(* A metric's compute step *)

_predict(m, dt_, leg, g, aux) ==
    CASE m = "StrideTime"               -> StrideTime(dt_, leg, g, aux)
      [] m = "StanceTime"               -> StanceTime(dt_, leg, g, aux)
      [] m = "SwingTime"                -> SwingTime(dt_, leg, g, aux)
      [] m = "StepTime"                 -> StepTime(dt_, leg, g, aux)
      [] m = "InitialDoubleSupport"     -> InitialDoubleSupport(dt_, leg, g, aux)
      [] m = "TerminalDoubleSupport"    -> TerminalDoubleSupport(dt_, leg, g, aux)
      [] m = "DoubleSupport"            -> DoubleSupport(dt_, leg, g, aux)
      [] m = "SingleSupport"            -> SingleSupport(dt_, leg, g, aux)
      [] m = "StepLength"               -> StepLength(dt_, leg, g, aux)
      [] m = "StrideLength"             -> StrideLength(dt_, leg, g, aux)
      [] m = "GaitSpeed"                -> GaitSpeed(dt_, leg, g, aux)
      [] m = "Cadence"                  -> Cadence(dt_, leg, g, aux)
      [] m = "IntraStrideCovariance"    -> IntraStrideCovariance(dt_, leg, g, aux)
      [] m = "IntraStepCovariance"      -> IntraStepCovariance(dt_, leg, g, aux)
      [] m = "HarmonicRatioV"           -> HarmonicRatioV(dt_, leg, g, aux)
      [] m = "PhaseCoordinationIndex"   -> PhaseCoordinationIndex(dt_, leg, g, aux)
      [] m = "GaitSymmetryIndex"        -> GaitSymmetryIndex(dt_, leg, g, aux)
      [] m = "StepRegularityV"          -> StepRegularityV(dt_, leg, g, aux)
      [] m = "StrideRegularityV"        -> StrideRegularityV(dt_, leg, g, aux)
      [] m = "AutocorrelationSymmetryV" -> AutocorrelationSymmetryV(dt_, leg, g, aux)

\* the basic_asymmetry decorator: run the body, then derive the paired column
basic_asymmetry(m, r, aux) ==
    IF r.err # "" THEN r
    ELSE IF Key(m) \notin DOMAIN r.gait THEN Raise("KeyError", r.gait)
    ELSE Ok(Put(r.gait, AsyKey(m), Asymmetry(aux.inertial_data_i, r.gait[Key(m)])))

\* the compute function the engine invokes for metric m
Compute(m, dt_, leg, g, aux) ==
    IF HasAsymmetry(m) THEN basic_asymmetry(m, _predict(m, dt_, leg, g, aux), aux)
    ELSE _predict(m, dt_, leg, g, aux)

---------------------------------------------------------------------------
(* The engine (base.py, modelled from section 4.1 of the design document): *)
(* the closure of the requested metrics is validated when the graph is     *)
(* built, then every metric of the closure is computed once, each after    *)
(* its declared dependencies; a metric whose column is in the table is not *)
(* computed again.                                                         *)

\* the registry of the metric classes of gait_metrics.py
SourceRegistry == [m \in Metrics |-> Depends(m)]

\* caller registrations the graph build must reject: two descriptors that
\* depend on each other, and one that names a dependency nobody registered
CyclicRegistry ==
    [m \in Metrics \cup {"LoopA", "LoopB"} |->
        IF m = "LoopA" THEN <<"LoopB">>
        ELSE IF m = "LoopB" THEN <<"StrideTime", "LoopA">>
        ELSE Depends(m)]

DanglingRegistry ==
    [m \in Metrics \cup {"Orphan"} |->
        IF m = "Orphan" THEN <<"StepTime", "NoSuchMetric">> ELSE Depends(m)]

AllNames == Metrics \cup {"LoopA", "LoopB", "Orphan", "NoSuchMetric"}

DepSet(reg, m) == IF m \in DOMAIN reg THEN {reg[m][i] : i \in 1..Len(reg[m])} ELSE {}

RECURSIVE Reach(_, _)
Reach(reg, S) ==
    LET next == S \cup UNION {DepSet(reg, m) : m \in S}
    IN  IF next = S THEN S ELSE Reach(reg, next)

\* the requested metrics and everything they depend on, directly or not
Closure(reg, req) == Reach(reg, req)

HasUnknown(reg, req) == \E m \in Closure(reg, req) : m \notin DOMAIN reg

\* a graph build that does not look for cycles
NoCycle(reg, req) == FALSE

HasCycle(reg, req) == \E m \in Closure(reg, req) : m \in Reach(reg, DepSet(reg, m))

\* memoization: the metric's column is already in the table
Memoized(g, m) == Key(m) \in DOMAIN g

\* an engine that does not wait for the dependencies
ReadyAlways(reg, g, m) == TRUE

Ready(reg, g, m) == \A d \in DepSet(reg, m) : Memoized(g, d)

ResultKeys(g) == DOMAIN g \ InputKeys

---------------------------------------------------------------------------
(* Runs *)

LegLengths == {None, <<900>>}

\* sampling intervals [ms]: 50 Hz, and 1 Hz, at which int(4.5 * dt) is 4 lags
Intervals(profile) == IF profile = "long" THEN {20} ELSE {20, 1000}

\* recordings on which several metrics are requested together
CoreLayouts == {<<3>>, <<2, 2>>}

Requests(reg) == {r \in SUBSET DOMAIN reg : 1 <= Cardinality(r) /\ Cardinality(r) <= MaxRequested}

\* three metrics that share dependencies, requested together
SharedRequest == {"GaitSpeed", "StrideLength", "StepLength"}

\* PhaseCoordinationIndex together with the two columns its body reads
PhaseRequest == {"PhaseCoordinationIndex", "StepTime", "StrideTime"}

\* the recordings of these requests: the core ones and a bout of four events
SharedLayouts == CoreLayouts \cup {<<4>>}

\* the three times of a gait cycle, requested together
TemporalRequest == {"StrideTime", "StanceTime", "SwingTime"}

\* GaitSymmetryIndex together with the column its body reads, requested on the
\* recordings whose bouts are long enough to be filtered
FilteredRequest == {"GaitSymmetryIndex", "StrideTime"}

Init ==
    /\ pc = "idle"
    /\ error = ""
    /\ registry = SourceRegistry
    /\ requested = {}
    /\ dt = 20
    /\ leg_length = None
    /\ gait = MakeGait(<<1>>, "short", 0)
    /\ gait_aux = MakeAux(<<1>>, "short", 0)
    /\ calls = [m \in AllNames |-> 0]
    /\ started = <<>>
    /\ acv = [op |-> "none"]
    /\ earlier = <<>>
    /\ lib = [op |-> "none"]

\* an engine whose cache of computed columns outlives the run
BeginWithCache(reg, req, layout, profile, seed, d, leg) ==
    /\ pc' = "start"
    /\ error' = ""
    /\ registry' = reg
    /\ requested' = req
    /\ dt' = d
    /\ leg_length' = leg
    /\ gait' = LET fresh == MakeGait(layout, profile, seed)
               IN  [k \in DOMAIN fresh \cup ResultKeys(gait) |->
                       IF k \in DOMAIN fresh THEN fresh[k] ELSE gait[k]]
    /\ gait_aux' = MakeAux(layout, profile, seed)
    /\ calls' = [m \in AllNames |-> 0]
    /\ started' = <<>>
    /\ UNCHANGED <<acv, lib>>

Begin(reg, req, layout, profile, seed, d, leg) ==
    /\ pc' = "start"
    /\ error' = ""
    /\ registry' = reg
    /\ requested' = req
    /\ dt' = d
    /\ leg_length' = leg
    /\ gait' = MakeGait(layout, profile, seed)
    /\ gait_aux' = MakeAux(layout, profile, seed)
    /\ calls' = [m \in AllNames |-> 0]
    /\ started' = <<>>
    /\ UNCHANGED <<acv, lib>>

\* a run: the caller hands over a fresh table, the side data and the request
Start ==
    /\ pc = "idle"
    /\ \E req \in Requests(SourceRegistry) \cup {SharedRequest, PhaseRequest, TemporalRequest},
          layout \in Layouts, profile \in Profiles, seed \in Seeds, leg \in LegLengths :
          \E d \in Intervals(profile) :
             /\ profile = "long" => seed = 0
             /\ (Cardinality(req) = 2 /\ ~ (req = FilteredRequest /\ profile = "long")) =>
                   (layout \in CoreLayouts /\ profile = "short" /\ seed = 0)
             /\ (req = FilteredRequest /\ profile = "long") => layout \in SharedLayouts
             /\ Cardinality(req) > 2 => (layout \in SharedLayouts /\ profile = "short" /\ seed = 0)
             /\ Begin(SourceRegistry, req, layout, profile, seed, d, leg)
    /\ earlier' = <<>>

\* a run against a registry the caller extended
StartExtended ==
    /\ pc = "idle"
    /\ \E reg \in {CyclicRegistry, DanglingRegistry} :
          \E req \in Requests(reg) :
             Begin(reg, req, <<3>>, "short", 0, 20, None)
    /\ earlier' = <<>>

\* a steady walk: one bout of SteadyEvents alternating-foot events 25 samples
\* (0.5 s at 50 Hz) apart, every step lowering the centre of mass by 50 mm; with
\* a leg of 925 mm each step is 2 * sqrt(2 * 925 * 50 - 50^2) = 600 mm long
SteadyEvents == 10

SteadyLegLength == <<925>>

MakeSteadyGait ==
    [MakeGait(<<SteadyEvents>>, "long", 0) EXCEPT !["delta h"] = [i \in 1..SteadyEvents |-> 50]]

\* a run that requests GaitSpeed on the steady walk
StartSteady ==
    /\ pc = "idle"
    /\ pc' = "start"
    /\ error' = ""
    /\ registry' = SourceRegistry
    /\ requested' = {"GaitSpeed"}
    /\ dt' = 20
    /\ leg_length' = SteadyLegLength
    /\ gait' = MakeSteadyGait
    /\ gait_aux' = MakeAux(<<SteadyEvents>>, "long", 0)
    /\ calls' = [m \in AllNames |-> 0]
    /\ started' = <<>>
    /\ earlier' = <<>>
    /\ UNCHANGED <<acv, lib>>

\* the requests of the runs made in sequence
AgainRequests == {{"StepTime"}, {"GaitSpeed"}}

\* a sequence of runs: the table of a finished run has gone back to the caller,
\* who runs the engine again on another recording
StartAgain ==
    /\ pc = "done"
    /\ DOMAIN earlier = {}
    /\ requested \in AgainRequests
    /\ \E layout \in CoreLayouts, profile \in Profiles, seed \in Seeds :
          gait_aux = MakeAux(layout, profile, seed)
    /\ \E req \in AgainRequests, layout \in CoreLayouts, seed \in Seeds, leg \in LegLengths :
          Begin(SourceRegistry, req, layout, "short", seed, 20, leg)
    /\ earlier' = gait

FailUnknown ==
    /\ pc = "start"
    /\ HasUnknown(registry, requested)
    /\ pc' = "failed"
    /\ error' = "UnknownMetricError"
    /\ UNCHANGED <<registry, requested, dt, leg_length, gait, gait_aux, calls, started, acv, earlier, lib>>

FailCycle ==
    /\ pc = "start"
    /\ ~ HasUnknown(registry, requested)
    /\ HasCycle(registry, requested)
    /\ pc' = "failed"
    /\ error' = "DependencyCycleError"
    /\ UNCHANGED <<registry, requested, dt, leg_length, gait, gait_aux, calls, started, acv, earlier, lib>>

Build ==
    /\ pc = "start"
    /\ ~ HasUnknown(registry, requested)
    /\ ~ HasCycle(registry, requested)
    /\ pc' = "running"
    /\ UNCHANGED <<error, registry, requested, dt, leg_length, gait, gait_aux, calls, started, acv, earlier, lib>>

\* the engine invokes the compute function of a metric of the closure
Evaluate(m) ==
    /\ pc = "running"
    /\ m \in Closure(registry, requested)
    /\ ~ Memoized(gait, m)
    /\ Ready(registry, gait, m)
    /\ LET r == Compute(m, dt, leg_length, gait, gait_aux)
       IN  /\ gait' = r.gait
           /\ error' = r.err
           /\ pc' = IF r.err = "" THEN "running" ELSE "raised"
    /\ calls' = [calls EXCEPT ![m] = @ + 1]
    /\ started' = Append(started, m)
    /\ UNCHANGED <<registry, requested, dt, leg_length, gait_aux, acv, earlier, lib>>

\* every metric of the closure is in the table: the table goes back to the caller
Finish ==
    /\ pc = "running"
    /\ \A m \in Closure(registry, requested) : Memoized(gait, m)
    /\ pc' = "done"
    /\ UNCHANGED <<error, registry, requested, dt, leg_length, gait, gait_aux, calls, started, acv, earlier, lib>>

\* the run is over (the table handed back, or the exception propagated): the
\* engine keeps nothing of it
Return ==
    /\ pc \in {"done", "failed", "raised"}
    /\ pc' = "idle"
    /\ error' = ""
    /\ registry' = SourceRegistry
    /\ requested' = {}
    /\ dt' = 20
    /\ leg_length' = None
    /\ gait' = MakeGait(<<1>>, "short", 0)
    /\ gait_aux' = MakeAux(<<1>>, "short", 0)
    /\ calls' = [m \in AllNames |-> 0]
    /\ started' = <<>>
    /\ earlier' = <<>>
    /\ UNCHANGED <<acv, lib>>

Next ==
    \/ Start
    \/ StartExtended
    \/ StartSteady
    \/ StartAgain
    \/ FailUnknown
    \/ FailCycle
    \/ Build
    \/ \E m \in Metrics : Evaluate(m)
    \/ Finish
    \/ Return

Spec == Init /\ [][Next]_vars

---------------------------------------------------------------------------
(* The autocovariance library on its own: an input is drawn, then          *)
(* _autocovariance_lag and _autocovariancefunction are each applied to it  *)

MaxLen == 4

MaxLen2 == 3

MaxSample == 2

NAxes == 2

\* 1-D signals, and 2-D signals of NAxes axes (rows are samples)
Signals1 == UNION {[1..n -> 0..MaxSample] : n \in 1..MaxLen}

Signals2 == UNION {[1..n -> [1..NAxes -> 0..MaxSample]] : n \in 1..MaxLen2}

AcvInputs1 ==
    {[op |-> "compare", ndim |-> 1, x |-> x, lag |-> l, biased |-> b,
      lag_done |-> FALSE, lag_out |-> <<>>, acf_done |-> FALSE, acf_out |-> <<>>] :
        x \in Signals1, l \in 0..(MaxLen - 1), b \in BOOLEAN}

AcvInputs2 ==
    {[op |-> "compare", ndim |-> 2, x |-> x, lag |-> l, biased |-> b,
      lag_done |-> FALSE, lag_out |-> <<>>, acf_done |-> FALSE, acf_out |-> <<>>] :
        x \in Signals2, l \in 0..(MaxLen2 - 1), b \in BOOLEAN}

\* the 1-D signals that are mean-centred and unit-scaled: mean 0 and standard
\* deviation 1, the sample one (ddof=1) or the population one
SumSquares(x) == SumSeq([j \in 1..Len(x) |-> x[j] * x[j]])

IsStandardised(x) ==
    /\ Len(x) >= 2
    /\ SumSeq(x) = 0
    /\ SumSquares(x) = Len(x) - 1 \/ SumSquares(x) = Len(x)

SignalsStandardised ==
    {x \in UNION {[1..n -> (0 - MaxSample)..MaxSample] : n \in 2..MaxLen} : IsStandardised(x)}

AcvInputsStandardised ==
    {[op |-> "compare", ndim |-> 1, x |-> x, lag |-> l, biased |-> b,
      lag_done |-> FALSE, lag_out |-> <<>>, acf_done |-> FALSE, acf_out |-> <<>>] :
        x \in SignalsStandardised, l \in 0..(MaxLen - 1), b \in BOOLEAN}

\* the inputs of _autocovariance: a 1-D signal and 0 <= i1 < i2 < i3, i3 within
\* the signal or one past its end
MaxLenWin == 5

SignalsWin == UNION {[1..n -> 0..MaxSample] : n \in 1..MaxLenWin}

AcvInputsWin ==
    {[op |-> "window", x |-> x, i1 |-> w[1], i2 |-> w[2], i3 |-> w[3], biased |-> b,
      win_done |-> FALSE, win_out |-> <<>>] :
        x \in SignalsWin,
        w \in {v \in (0..MaxLenWin) \X (1..MaxLenWin) \X (2..(MaxLenWin + 1)) :
                  v[1] < v[2] /\ v[2] < v[3]},
        b \in BOOLEAN}

AcvInit ==
    /\ pc = "idle"
    /\ error = ""
    /\ registry = SourceRegistry
    /\ requested = {}
    /\ dt = 20
    /\ leg_length = None
    /\ gait = MakeGait(<<1>>, "short", 0)
    /\ gait_aux = MakeAux(<<1>>, "short", 0)
    /\ calls = [m \in AllNames |-> 0]
    /\ started = <<>>
    /\ earlier = <<>>
    /\ lib = [op |-> "none"]
    /\ \/ acv \in {a \in AcvInputs1 : a.lag < Len(a.x)}
       \/ acv \in {a \in AcvInputs2 : a.lag < Len(a.x)}
       \/ acv \in {a \in AcvInputsStandardised : a.lag < Len(a.x)}
       \/ acv \in {a \in AcvInputsWin : a.i3 <= Len(a.x) + 1}

\* _autocovariance_lag(x, lag, biased)
CallLag ==
    /\ acv.op = "compare"
    /\ ~ acv.lag_done
    /\ acv' = [acv EXCEPT !.lag_done = TRUE,
                          !.lag_out = IF acv.ndim = 1
                                      THEN _autocovariance_lag_1d(acv.x, acv.lag, acv.biased)
                                      ELSE _autocovariance_lag_2d(acv.x, acv.lag, acv.biased)]
    /\ UNCHANGED <<pc, error, registry, requested, dt, leg_length, gait, gait_aux, calls, started, earlier, lib>>

\* _autocovariancefunction(x, lag + 1, biased)
CallFunction ==
    /\ acv.op = "compare"
    /\ ~ acv.acf_done
    /\ acv' = [acv EXCEPT !.acf_done = TRUE,
                          !.acf_out = IF acv.ndim = 1
                                      THEN _autocovariancefunction_1d(acv.x, acv.lag + 1, acv.biased)
                                      ELSE _autocovariancefunction_2d(acv.x, acv.lag + 1, acv.biased)]
    /\ UNCHANGED <<pc, error, registry, requested, dt, leg_length, gait, gait_aux, calls, started, earlier, lib>>

\* _autocovariance(x, i1, i2, i3, biased)
CallWindow ==
    /\ acv.op = "window"
    /\ ~ acv.win_done
    /\ acv' = [acv EXCEPT !.win_done = TRUE,
                          !.win_out = _autocovariance(acv.x, acv.i1, acv.i2, acv.i3, acv.biased)]
    /\ UNCHANGED <<pc, error, registry, requested, dt, leg_length, gait, gait_aux, calls, started, earlier, lib>>

AcvNext ==
    \/ CallLag
    \/ CallFunction
    \/ CallWindow

SpecAcv == AcvInit /\ [][AcvNext]_vars

---------------------------------------------------------------------------
(* Properties of the engine runs (Spec) *)

\* C1: in one run no metric's compute function is invoked twice, and when the
\* run has completed every metric of the dependency closure of the request has
\* been invoked exactly once and no other metric at all, however many requested
\* metrics depend on it; requesting GaitSpeed, StrideLength and StepLength
\* together computes StepLength once and StrideLength once
C1_ComputedExactlyOnce ==
    /\ \A m \in AllNames : calls[m] <= 1
    /\ pc = "done" =>
          \A m \in AllNames :
              calls[m] = IF m \in Closure(registry, requested) THEN 1 ELSE 0
    /\ (pc = "done" /\ requested = SharedRequest) =>
          /\ calls["StepLength"] = 1
          /\ calls["StrideLength"] = 1
          /\ calls["StrideTime"] = 1
          /\ calls["GaitSpeed"] = 1

\* C1 witness: a completed run of the shared request, whose three metrics all
\* lead to StepLength, with StepLength computed once
C1_SharedRequestDone ==
    /\ pc = "done"
    /\ requested = SharedRequest
    /\ calls["StepLength"] = 1
    /\ calls["StrideLength"] = 1

\* C2: every step that invokes a metric's compute function is taken with each
\* declared dependency of the metric already computed and its result column in
\* the table; DoubleSupport starts only with the initial and terminal double
\* support columns written, AutocorrelationSymmetryV only with the step and
\* stride regularity columns written
C2_DependenciesFirst ==
    [][/\ \A m \in AllNames :
            calls'[m] > calls[m] =>
               \A d \in DepSet(registry, m) : calls[d] >= 1 /\ Key(d) \in DOMAIN gait
       /\ calls'["DoubleSupport"] > calls["DoubleSupport"] =>
               {"PARAM:initial double support", "PARAM:terminal double support"}
                   \subseteq DOMAIN gait
       /\ calls'["AutocorrelationSymmetryV"] > calls["AutocorrelationSymmetryV"] =>
               {"BOUTPARAM:step regularity - V", "BOUTPARAM:stride regularity - V"}
                   \subseteq DOMAIN gait]_vars

\* C2 witness: DoubleSupport was requested alone and has been computed, after
\* both of its dependencies
C2_DoubleSupportComputed ==
    /\ requested = {"DoubleSupport"}
    /\ Len(started) = 3
    /\ started[3] = "DoubleSupport"
    /\ "PARAM:double support" \in DOMAIN gait

\* C3: when a run completes the table holds a column, one entry per event row,
\* for every metric of the dependency closure of the request, requested or not;
\* a request that includes GaitSpeed yields the gait speed, stride length, step
\* length and stride time columns
C3_ClosureColumnsPresent ==
    pc = "done" =>
       /\ \A m \in Closure(registry, requested) :
             Key(m) \in DOMAIN gait /\ Len(gait[Key(m)]) = NRows(gait)
       /\ "GaitSpeed" \in requested =>
             {"PARAM:gait speed", "PARAM:stride length", "PARAM:step length",
              "PARAM:stride time"} \subseteq DOMAIN gait

\* C3 witness: a completed run that requested only GaitSpeed and holds the
\* columns of the metrics it did not request
C3_GaitSpeedAloneDone ==
    /\ pc = "done"
    /\ requested = {"GaitSpeed"}
    /\ {"PARAM:stride length", "PARAM:step length", "PARAM:stride time"} \subseteq DOMAIN gait

\* C4: a request whose closure holds a cycle ends in DependencyCycleError, one
\* whose closure names an unknown dependency in UnknownMetricError; such a run
\* never reaches the evaluation, and when it fails no compute function has been
\* invoked and the table holds no result column
C4_GraphErrorsBeforeCompute ==
    /\ requested \cap {"LoopA", "LoopB"} # {} =>
          /\ pc \in {"start", "failed"}
          /\ pc = "failed" => error = "DependencyCycleError"
    /\ "Orphan" \in requested =>
          /\ pc \in {"start", "failed"}
          /\ pc = "failed" => error = "UnknownMetricError"
    /\ pc \in {"running", "done", "raised"} =>
          \A m \in Closure(registry, requested) :
              m \in DOMAIN registry /\ m \notin Reach(registry, DepSet(registry, m))
    /\ pc = "failed" =>
          /\ error \in {"DependencyCycleError", "UnknownMetricError"}
          /\ \A m \in AllNames : calls[m] = 0
          /\ started = <<>>
          /\ ResultKeys(gait) = {}

\* C4 witness: a run on a cyclic closure has failed with DependencyCycleError
C4_CycleRejected ==
    /\ pc = "failed"
    /\ error = "DependencyCycleError"
    /\ "LoopA" \in requested
    /\ ResultKeys(gait) = {}

\* C5: no two distinct registered metric classes of gait_metrics.py are
\* constructed with the same name string; in particular IntraStepCovariance and
\* StepRegularityV have different names
C5_NamesUnique ==
    \A m1, m2 \in DOMAIN registry \cap Metrics : m1 # m2 => Name(m1) # Name(m2)

\* C6: a stored column of a bout-level metric has one entry per event row, the
\* rows of one bout hold the same value, and that value is the scalar computed
\* for the bout
C6_BoutValueOnEveryRow ==
    \A m \in BoutMetrics :
        Key(m) \in DOMAIN gait =>
           LET col  == gait[Key(m)]
               bout == gait_aux.inertial_data_i
           IN  /\ Len(col) = NRows(gait)
               /\ \A i, j \in 1..Len(col) : bout[i] = bout[j] => col[i] = col[j]
               /\ m = "StepRegularityV" =>
                     \A i \in 1..Len(col) :
                         col[i] = RegularityOfBout(gait["PARAM:step time"], gait_aux, bout[i], dt)
               /\ m = "StrideRegularityV" =>
                     \A i \in 1..Len(col) :
                         col[i] = RegularityOfBout(gait["PARAM:stride time"], gait_aux, bout[i], dt)
               /\ m = "PhaseCoordinationIndex" =>
                     \A i \in 1..Len(col) :
                         col[i] = PciOfPhases(FiniteOf(
                                     [r \in 1..NRows(gait) |->
                                         Div(gait["PARAM:step time"][r], gait["PARAM:stride time"][r])],
                                     gait_aux, bout[i], 1))

\* C6 witness: the step regularity column of a recording of two bouts whose
\* scalars differ is stored
C6_TwoBoutsStored ==
    /\ "BOUTPARAM:step regularity - V" \in DOMAIN gait
    /\ \E i, j \in 1..NRows(gait) :
          /\ gait_aux.inertial_data_i[i] # gait_aux.inertial_data_i[j]
          /\ gait["BOUTPARAM:step regularity - V"][i] # gait["BOUTPARAM:step regularity - V"][j]
          /\ IsFinite(gait["BOUTPARAM:step regularity - V"][i])

\* C7: in the column of StrideTime, SwingTime (offset 2) and StepTime (offset 1)
\* row i is finite iff row i+k exists and lies in the bout of row i, and is the
\* sentinel otherwise: the sentinel rows of a bout are exactly its last k rows
C7_OffsetMask ==
    \A m \in {"StrideTime", "SwingTime", "StepTime"} :
        Key(m) \in DOMAIN gait =>
           LET col  == gait[Key(m)]
               bout == gait_aux.inertial_data_i
               k    == IF m = "StepTime" THEN 1 ELSE 2
           IN  /\ Len(col) = Len(bout)
               /\ \A i \in 1..Len(col) :
                     /\ col[i][1] = "fin" <=> (i + k <= Len(bout) /\ bout[i + k] = bout[i])
                     /\ col[i][1] # "fin" => col[i] = NaN
                     /\ col[i] = NaN <=>
                           Cardinality({j \in 1..Len(bout) : j > i /\ bout[j] = bout[i]}) < k

\* C7 witness: the step time column of two bouts of two events, the second bout
\* directly after the first: the last row of the first bout is the sentinel
C7_BoutFollowedByBout ==
    /\ gait_aux.inertial_data_i = <<1, 1, 2, 2>>
    /\ "PARAM:step time" \in DOMAIN gait
    /\ gait["PARAM:step time"][1][1] = "fin"
    /\ gait["PARAM:step time"][2] = NaN
    /\ gait["PARAM:step time"][3][1] = "fin"

\* C8: with no leg length the run does not raise, the columns of StepLength,
\* StrideLength and GaitSpeed hold the sentinel on every row, and a completed
\* run has stored every requested metric
C8_NoLegLengthNoRaise ==
    leg_length = None =>
       /\ pc # "raised"
       /\ \A m \in {"StepLength", "StrideLength", "GaitSpeed"} :
             Key(m) \in DOMAIN gait =>
                \A i \in 1..NRows(gait) : gait[Key(m)][i] = NaN
       /\ pc = "done" => \A m \in requested : Key(m) \in DOMAIN gait

\* C9: the asymmetry column of a metric wrapped by basic_asymmetry holds at row
\* i the absolute difference of the metric's value at row i and at row i-1 when
\* row i-1 lies in the same bout, and the sentinel otherwise (the first row of
\* each bout); values 10, 12 of a bout of two events give sentinel, 2
C9_AsymmetryColumn ==
    /\ \A m \in Metrics :
          (HasAsymmetry(m) /\ Key(m) \in DOMAIN gait) =>
             /\ AsyKey(m) \in DOMAIN gait
             /\ Len(gait[AsyKey(m)]) = NRows(gait)
             /\ \A i \in 1..NRows(gait) :
                   gait[AsyKey(m)][i] =
                      IF i > 1 /\ gait_aux.inertial_data_i[i - 1] = gait_aux.inertial_data_i[i]
                      THEN AbsDiff(gait[Key(m)][i], gait[Key(m)][i - 1])
                      ELSE NaN
    /\ Asymmetry(<<1, 1>>, <<Fin(10), Fin(12)>>) = <<NaN, Fin(2)>>

\* C9 witness: the stance time asymmetry of two bouts of two events: finite on
\* the second row of the first bout, the sentinel on the first row of the second
C9_StanceAsymmetryStored ==
    /\ gait_aux.inertial_data_i = <<1, 1, 2, 2>>
    /\ "PARAM:stance time asymmetry" \in DOMAIN gait
    /\ gait["PARAM:stance time asymmetry"][1] = NaN
    /\ gait["PARAM:stance time asymmetry"][2][1] = "fin"
    /\ gait["PARAM:stance time asymmetry"][2] # Fin(0)
    /\ gait["PARAM:stance time asymmetry"][3] = NaN

\* C14: the stored step (stride) regularity of a bout is the value of the bout's
\* unbiased vertical-axis autocovariance function at lag p, the lag of the local
\* maximum of that function closest to round(mean step (stride) time / dt)
C14_RegularityAtNearestPeak ==
    \A m \in {"StepRegularityV", "StrideRegularityV"} :
        Key(m) \in DOMAIN gait =>
           \A i \in 1..NRows(gait) :
              LET b   == gait_aux.inertial_data_i[i]
                  dur == gait[IF m = "StepRegularityV" THEN "PARAM:step time"
                                                       ELSE "PARAM:stride time"]
                  acf == _autocovariancefunction_1d(
                             Column(gait_aux.accel[b], gait_aux.vert_axis), MaxLag(dt), FALSE)
                  pks == find_peaks(acf)
                  p   == pks[ArgminAbs(pks, MeanLag(dur, gait_aux, b, dt)) + 1]
              IN  gait[Key(m)][i] = acf[p + 1]

\* C15: StepRegularityV, StrideRegularityV or GaitSymmetryIndex has been
\* computed on a recording whose bouts all have a mean duration (and, for
\* GaitSymmetryIndex, can be filtered: more samples than the 15 of padding, a
\* cutoff below Nyquist) and one of whose bouts has an autocovariance curve
\* without local maximum, a curve that is empty or has fewer than three lags
\* included: the metric has not raised, its column is stored and holds the
\* sentinel on that bout
C15_NoPeakGivesSentinel ==
    \A m \in {"StepRegularityV", "StrideRegularityV", "GaitSymmetryIndex"} :
        LET bout      == gait_aux.inertial_data_i
            bouts     == 1..Len(gait_aux.accel)
            dep       == IF m = "StepRegularityV" THEN "PARAM:step time" ELSE "PARAM:stride time"
            NoPeak(b) ==
                \/ MaxLag(dt) < 3
                \/ /\ m # "GaitSymmetryIndex"
                   /\ find_peaks(_autocovariancefunction_1d(
                          Column(gait_aux.accel[b], gait_aux.vert_axis), MaxLag(dt), FALSE)) = <<>>
        IN  (/\ calls[m] = 1
             /\ dep \in DOMAIN gait
             /\ \A b \in bouts : MeanLag(gait[dep], gait_aux, b, dt) >= 0
             /\ m = "GaitSymmetryIndex" =>
                    /\ 2 * 10 * dt < 1000
                    /\ \A b \in bouts : Len(gait_aux.accel[b]) > 15
             /\ \E b \in bouts : NoPeak(b)) =>
               /\ Key(m) \in DOMAIN gait
               /\ \A i \in 1..Len(bout) : NoPeak(bout[i]) => gait[Key(m)][i] = NaN

\* C16: GaitSymmetryIndex computed on a recording it can filter (a cutoff
\* below Nyquist, bouts of more samples than the 15 of padding, each with a
\* mean stride time) stores for each bout sqrt(C(p)) / sqrt(3), C the summed
\* biased autocovariance curves of the filtered axes and p the lag of the peak
\* of C nearest to half the mean stride lag: its column is in the table, one
\* value per bout on all the rows of the bout
C16_GaitSymmetryStored ==
    (/\ calls["GaitSymmetryIndex"] = 1
     /\ "PARAM:stride time" \in DOMAIN gait
     /\ 2 * 10 * dt < 1000
     /\ \A b \in 1..Len(gait_aux.accel) :
           /\ Len(gait_aux.accel[b]) > 15
           /\ MeanLag(gait["PARAM:stride time"], gait_aux, b, dt) >= 0) =>
        /\ pc # "raised"
        /\ "BOUTPARAM:gait symmetry index" \in DOMAIN gait
        /\ Len(gait["BOUTPARAM:gait symmetry index"]) = NRows(gait)
        /\ \A i, j \in 1..NRows(gait) :
              gait_aux.inertial_data_i[i] = gait_aux.inertial_data_i[j] =>
                 gait["BOUTPARAM:gait symmetry index"][i] = gait["BOUTPARAM:gait symmetry index"][j]

\* C17: IntraStrideCovariance (offset 2) and IntraStepCovariance (offset 1) do
\* not raise, and their column holds on each eligible row i the unbiased
\* window autocovariance of the vertical signal of the row's bout with
\* i1 = IC[i], i2 = IC[i+offset], i3 = i2 + (i2 - i1), the sentinel when i3 is
\* past the end of the signal, and the sentinel on the ineligible rows
C17_IntraCovarianceRows ==
    \A m \in {"IntraStrideCovariance", "IntraStepCovariance"} :
        calls[m] = 1 =>
           LET k    == IF m = "IntraStepCovariance" THEN 1 ELSE 2
               bout == gait_aux.inertial_data_i
               IC   == gait["IC"]
           IN  /\ ~ (pc = "raised" /\ started[Len(started)] = m)
               /\ Key(m) \in DOMAIN gait
               /\ Len(gait[Key(m)]) = Len(bout)
               /\ \A i \in 1..Len(bout) :
                     gait[Key(m)][i] =
                        IF i + k <= Len(bout) /\ bout[i + k] = bout[i]
                        THEN LET x  == Column(gait_aux.accel[bout[i]], gait_aux.vert_axis)
                                 i3 == IC[i + k] + (IC[i + k] - IC[i])
                             IN  IF i3 > Len(x) THEN NaN
                                 ELSE _autocovariance(x, IC[i], IC[i + k], i3, FALSE)
                        ELSE NaN
               /\ \A i \in 1..Len(bout) : gait[Key(m)][i] # RaisedValueError

\* C17 witness: a stored intra-stride covariance column with a finite value on
\* one eligible row and the sentinel on an eligible row whose second window
\* runs past the end of the bout's signal
C17_FiniteAndPastEnd ==
    /\ "PARAM:intra-stride covariance - V" \in DOMAIN gait
    /\ \E i, j \in 1..NRows(gait) :
          /\ Eligible(gait_aux.inertial_data_i, i, 2)
          /\ Eligible(gait_aux.inertial_data_i, j, 2)
          /\ IsFinite(gait["PARAM:intra-stride covariance - V"][i])
          /\ gait["PARAM:intra-stride covariance - V"][j] = NaN
          /\ 2 * gait["IC"][j + 2] - gait["IC"][j] >
                Len(gait_aux.accel[gait_aux.inertial_data_i[j]])

\* C18: a stored gait speed is finite only on rows where the stride length and
\* the stride time are both finite, and is there their quotient; on the steady
\* walk (stride time 1.0 s, stride length 1.2 m) it is 1.2 m/s on every row but
\* the last two of the bout, which hold the sentinel
C18_GaitSpeedEndToEnd ==
    "PARAM:gait speed" \in DOMAIN gait =>
       LET speed == gait["PARAM:gait speed"]
           n     == NRows(gait)
       IN  /\ Len(speed) = n
           /\ \A i \in 1..n :
                 /\ speed[i] # NaN =>
                       /\ gait["PARAM:stride length"][i][1] = "fin"
                       /\ gait["PARAM:stride time"][i][1] = "fin"
                       /\ speed[i] = Div(gait["PARAM:stride length"][i],
                                         gait["PARAM:stride time"][i])
                 /\ (leg_length # None /\ gait["PARAM:stride length"][i][1] = "fin"
                                       /\ gait["PARAM:stride time"][i][1] = "fin") =>
                       speed[i][1] = "fin"
           /\ leg_length = SteadyLegLength =>
                 \A i \in 1..n : speed[i] = IF i <= n - 2 THEN Rat(6, 5) ELSE NaN

\* C18 witness: the steady walk of SteadyEvents events with its gait speed
\* stored: stride time 1000 ms and stride length 1200 mm wherever eligible
C18_SteadyWalkDone ==
    /\ pc = "done"
    /\ leg_length = SteadyLegLength
    /\ NRows(gait) = SteadyEvents
    /\ gait_aux.inertial_data_i = [i \in 1..SteadyEvents |-> 1]
    /\ \A i \in 1..(SteadyEvents - 2) : gait["PARAM:stride time"][i] = Fin(1000)
    /\ \A i \in 1..(SteadyEvents - 1) : gait["PARAM:stride length"][i] = Fin(1200)
    /\ gait["PARAM:stride length"][SteadyEvents] = NaN
    /\ gait["PARAM:gait speed"][1] = Rat(6, 5)
    /\ gait["PARAM:gait speed"][SteadyEvents - 1] = NaN

\* C19: a step of a run that invokes the compute function of metric m finds
\* m's column absent, adds no column but m's own (and m's asymmetry column
\* when m is wrapped), and leaves every column already in the table (the input
\* columns and the other metrics' columns) and the auxiliary data as they were;
\* no compute function is invoked twice
C19_WritesOnlyOwnColumn ==
    [][pc = "running" =>
          /\ gait_aux' = gait_aux
          /\ \A k \in DOMAIN gait : k \in DOMAIN gait' /\ gait'[k] = gait[k]
          /\ InputKeys \subseteq DOMAIN gait
          /\ calls' = calls => gait' = gait
          /\ \A m \in AllNames :
                calls'[m] # calls[m] =>
                   /\ calls[m] = 0 /\ calls'[m] = 1
                   /\ Key(m) \notin DOMAIN gait
                   /\ (DOMAIN gait') \ (DOMAIN gait) \subseteq
                         {Key(m)} \cup (IF HasAsymmetry(m) THEN {AsyKey(m)} ELSE {})
                   /\ pc' = "running" =>
                         ({Key(m)} \cup (IF HasAsymmetry(m) THEN {AsyKey(m)} ELSE {}))
                             \subseteq DOMAIN gait'
                   /\ \A m2 \in AllNames \ {m} : calls'[m2] = calls[m2]]_vars

\* C19 witness: DoubleSupport was computed after its two wrapped dependencies,
\* whose columns and asymmetry columns are in the table beside its own
C19_DoubleSupportBesideOthers ==
    /\ pc = "done"
    /\ calls["DoubleSupport"] = 1
    /\ calls["InitialDoubleSupport"] = 1
    /\ calls["TerminalDoubleSupport"] = 1
    /\ started[Len(started)] = "DoubleSupport"
    /\ {Key("DoubleSupport"), Key("InitialDoubleSupport"), AsyKey("InitialDoubleSupport"),
        Key("TerminalDoubleSupport"), AsyKey("TerminalDoubleSupport")} \subseteq DOMAIN gait
    /\ InputKeys \subseteq DOMAIN gait
    /\ gait[Key("DoubleSupport")] # gait[Key("InitialDoubleSupport")]

\* C20: a run starts with no result column and no metric computed, whatever
\* ran before; a column is in a run's table only if its metric was computed
\* in that run; and the table a run of a sequence hands back holds, for every
\* metric of the closure, the column that metric computes from this run's
\* recording, sampling interval and leg length
C20_NoLeakAcrossRuns ==
    /\ pc = "start" =>
          /\ ResultKeys(gait) = {}
          /\ \A m \in AllNames : calls[m] = 0
    /\ pc \in {"running", "done", "raised"} =>
          /\ \A m \in Metrics :
                (Key(m) \in DOMAIN gait \/ AsyKey(m) \in DOMAIN gait) => calls[m] = 1
          /\ ResultKeys(gait) \subseteq
                UNION {{Key(m), AsyKey(m)} : m \in Closure(registry, requested)}
    /\ (pc = "done" /\ DOMAIN earlier # {}) =>
          \A m \in Closure(registry, requested) :
              /\ calls[m] = 1
              /\ Compute(m, dt, leg_length, gait, gait_aux) = Ok(gait)

\* C20 witness: the second run of a sequence is done on a recording other than
\* the first run's, and a metric both runs computed has another column now
C20_SecondRunRecomputed ==
    /\ pc = "done"
    /\ DOMAIN earlier # {}
    /\ earlier["IC"] # gait["IC"]
    /\ \E m \in Metrics :
          /\ Key(m) \in DOMAIN earlier
          /\ Key(m) \in DOMAIN gait
          /\ calls[m] = 1
          /\ gait[Key(m)] # earlier[Key(m)]

\* C23: whenever StepRegularityV, StrideRegularityV or GaitSymmetryIndex is
\* computed on a table that holds the column it reads, the number of lags of its autocovariance function spans at least
\* 4 s, and exceeds the mean stride lag of every bout whose mean stride time is
\* below 4 s
C23_MaxLagCoversStrides ==
    \A m \in {"StepRegularityV", "StrideRegularityV", "GaitSymmetryIndex"} :
        (calls[m] >= 1 /\ ~ (pc = "raised" /\ error = "KeyError")) =>
           /\ MaxLag(dt) * dt >= 4000
           /\ "PARAM:stride time" \in DOMAIN gait =>
                 \A b \in 1..Len(gait_aux.accel) :
                     LET lag == MeanLag(gait["PARAM:stride time"], gait_aux, b, dt)
                     IN  (lag >= 0 /\ lag * dt < 4000) => MaxLag(dt) > lag

\* C24: with the stride, stance and swing time columns in the table, on every
\* row i with row i+2 in the same bout the swing time is the stride time
\* minus the stance time, that is (IC[i+2] - FC[i]) * dt
C24_SwingIsStrideMinusStance ==
    ({"PARAM:stride time", "PARAM:stance time", "PARAM:swing time"} \subseteq DOMAIN gait) =>
       \A i \in 1..NRows(gait) :
           Eligible(gait_aux.inertial_data_i, i, 2) =>
              /\ gait["PARAM:swing time"][i] =
                    Sub(gait["PARAM:stride time"][i], gait["PARAM:stance time"][i])
              /\ gait["PARAM:swing time"][i] = Fin((gait["IC"][i + 2] - gait["FC"][i]) * dt)

\* C24 witness: the three columns were computed in one run on a bout of four
\* events, whose first two rows have a stride, a stance and a swing time
C24_ThreeTimesStored ==
    /\ pc = "done"
    /\ requested = TemporalRequest
    /\ gait_aux.inertial_data_i = <<1, 1, 1, 1>>
    /\ \A i \in 1..2 :
          /\ gait["PARAM:swing time"][i][1] = "fin"
          /\ gait["PARAM:stride time"][i][1] = "fin"
          /\ gait["PARAM:stance time"][i][2] > 0
          /\ gait["PARAM:swing time"][i] # gait["PARAM:stride time"][i]
    /\ gait["PARAM:swing time"][3] = NaN

\* C25: no body reads a column that is not in the table: no run on the
\* registry of gait_metrics.py ends in a KeyError, whatever is requested
C25_ReadsOnlyDeclaredColumns ==
    ~ (pc = "raised" /\ error = "KeyError" /\ registry = SourceRegistry)

\* C26: when HarmonicRatioV is computed, the 20 harmonics of the bin nearest
\* the stride frequency lie inside the 513 bins of the spectrum on every
\* eligible row, and the body does not raise IndexError
C26_HarmonicsInsideSpectrum ==
    (calls["HarmonicRatioV"] >= 1 /\ "PARAM:stride time" \in DOMAIN gait) =>
       /\ ~ (pc = "raised" /\ error = "IndexError")
       /\ \A i \in 1..NRows(gait) :
             Eligible(gait_aux.inertial_data_i, i, 2) =>
                NHarmonics * StrideBin(dt, gait["PARAM:stride time"][i][2]) <= NBins - 1

---------------------------------------------------------------------------
(* Properties of the autocovariance library (SpecAcv) *)

\* C10: for a 1-D or 2-D input x of N samples, a lag l < N and either
\* normalisation, _autocovariance_lag(x, l, biased) equals entry l of
\* _autocovariancefunction(x, l + 1, biased)
C10_LagEqualsFunctionEntry ==
    (acv.op = "compare" /\ acv.lag_done /\ acv.acf_done) =>
        acv.lag_out = acv.acf_out[acv.lag + 1]

\* C11: _autocovariance(x, i1, i2, i3, biased) is the sentinel when i3 > len(x),
\* and for i1 < i2 < i3 <= len(x), windows of equal length or not, it is a
\* finite value and the call does not raise
C11_WindowFiniteOrSentinel ==
    (acv.op = "window" /\ acv.win_done) =>
        IF acv.i3 > Len(acv.x) THEN acv.win_out = NaN
        ELSE acv.win_out # RaisedValueError /\ IsFinite(acv.win_out)

\* C12: for a mean-centred, unit-scaled signal and any max_lag >= 1, biased or
\* not, entry 0 of _autocovariancefunction(x, max_lag, biased) is exactly 1
C12_LagZeroIsOne ==
    (acv.op = "compare" /\ acv.ndim = 1 /\ acv.acf_done /\ IsStandardised(acv.x)) =>
        acv.acf_out[1] = Fin(1)

\* C13: on an input of N samples by A axes, column a of the result of
\* _autocovariancefunction is, at every lag, the result of the function on axis
\* a alone as a 1-D signal
C13_PerAxis ==
    (acv.op = "compare" /\ acv.ndim = 2 /\ acv.acf_done) =>
        \A l \in 1..Len(acv.acf_out) : \A a \in 1..NAxes :
            acv.acf_out[l][a] =
                _autocovariancefunction_1d(Column(acv.x, a), acv.lag + 1, acv.biased)[l]

---------------------------------------------------------------------------
(* The activity metrics of skimu/activity/metrics.py.  Accelerations are   *)
(* in units of 0.2 g; an array is a sequence of rows <<x, y, z>>.  The     *)
(* rows are chosen with an integer euclidean norm, so norm() is exact.     *)

\* 1 g in the units of the model
G == 5

ActivityRows == {<<0, 0, 0>>, <<3, 4, 0>>, <<0, 0, 5>>, <<0, 0, 10>>, <<0, -3, 0>>, <<6, 0, 8>>}

\* samples of the recordings long enough for sosfiltfilt
ActivitySamples == 28

\* rows of the repeating pattern a recording is made of
MaxPattern == 2

ActivityPatterns == UNION {[1..n -> ActivityRows] : n \in 1..MaxPattern}

\* the array of n rows that repeats pattern
Repeat(pattern, n) == [i \in 1..n |-> pattern[((i - 1) % Len(pattern)) + 1]]

\* arrays the filters are called on: a pattern alone (too short to be padded)
\* and a pattern repeated over ActivitySamples rows
ActivityArrays ==
    ActivityPatterns \cup {Repeat(p_, ActivitySamples) : p_ \in ActivityPatterns}

\* what the library can return for an array of n rows: scipy is not part of
\* the sources, its result is any array of the same shape
Filtered(n) ==
    {Repeat(p_, n) : p_ \in {q \in ActivityPatterns : \A i \in 1..Len(q) : q[i][2] = 0}}

\* numpy.linalg.norm(accel, axis=1)
norm(accel) ==
    [i \in 1..Len(accel) |->
        ISqrt(accel[i][1] * accel[i][1] + accel[i][2] * accel[i][2] + accel[i][3] * accel[i][3])]

\* numpy.minimum(x, c) with a scalar c
minimum(x, c) == [i \in 1..Len(x) |-> Min(x[i], c)]

Returned(val) == [err |-> "", val |-> val]

Raised(e) == [err |-> e, val |-> <<>>]

\* butter: a critical frequency 2 * cutoff / fs must lie strictly between 0 and 1
ButterOk(cutoff2, fs) == 0 < cutoff2 /\ cutoff2 < fs

\* sosfiltfilt pads with 3 * (2 * n_sections + 1) samples at each end and
\* refuses an input that is not longer than the padding
Padlen(n_sections) == 3 * (2 * n_sections + 1)

metric_enmo(accel, take_abs, trim_zero) ==
    LET enmo0 == [i \in 1..Len(accel) |-> norm(accel)[i] - G]
        enmo  == IF take_abs THEN [i \in 1..Len(accel) |-> Abs(enmo0[i])] ELSE enmo0
    IN  IF trim_zero THEN Returned(minimum(enmo, 0)) ELSE Returned(enmo0)

\* band is what sosfiltfilt returns for the band-pass filter (0.2 Hz, 15 Hz)
metric_bfen(accel, fs, band, trim_zero) ==
    IF ~ (ButterOk(2 * 15, fs)) THEN Raised("ValueError")
    ELSE IF Len(accel) <= Padlen(4) THEN Raised("ValueError")
    ELSE IF trim_zero THEN Returned(minimum(norm(band), 0))
    ELSE Returned(norm(band))

\* high is what sosfiltfilt returns for the high-pass filter (0.2 Hz)
metric_hfen(accel, fs, high, trim_zero) ==
    IF Len(accel) <= Padlen(2) THEN Raised("ValueError")
    ELSE IF trim_zero THEN Returned(minimum(norm(high), 0))
    ELSE Returned(norm(high))

\* high and low are what sosfiltfilt returns for the two filters; minimum()
\* called with one argument is a TypeError
metric_hfenplus(accel, fs, high, low, trim_zero) ==
    IF Len(accel) <= Padlen(2) THEN Raised("ValueError")
    ELSE IF trim_zero THEN Raised("TypeError")
    ELSE Returned([i \in 1..Len(accel) |-> norm(high)[i] + norm(low)[i] - G])

ActivityInputs ==
    [op : {"activity"}, accel : ActivityArrays, fs : {20, 100},
     take_abs : BOOLEAN, trim_zero : BOOLEAN,
     fn : {"none"}, high : {<<>>}, low : {<<>>}, out : {Raised("")}]

CallEnmo ==
    /\ lib.op = "activity" /\ lib.fn = "none"
    /\ lib' = [lib EXCEPT !.fn = "metric_enmo",
                          !.out = metric_enmo(lib.accel, lib.take_abs, lib.trim_zero)]
    /\ UNCHANGED <<pc, error, registry, requested, dt, leg_length, gait, gait_aux, calls, started, acv, earlier>>

CallBfen ==
    /\ lib.op = "activity" /\ lib.fn = "none"
    /\ \E band \in Filtered(Len(lib.accel)) :
          lib' = [lib EXCEPT !.fn = "metric_bfen", !.high = band,
                             !.out = metric_bfen(lib.accel, lib.fs, band, lib.trim_zero)]
    /\ UNCHANGED <<pc, error, registry, requested, dt, leg_length, gait, gait_aux, calls, started, acv, earlier>>

CallHfen ==
    /\ lib.op = "activity" /\ lib.fn = "none"
    /\ \E high \in Filtered(Len(lib.accel)) :
          lib' = [lib EXCEPT !.fn = "metric_hfen", !.high = high,
                             !.out = metric_hfen(lib.accel, lib.fs, high, lib.trim_zero)]
    /\ UNCHANGED <<pc, error, registry, requested, dt, leg_length, gait, gait_aux, calls, started, acv, earlier>>

CallHfenplus ==
    /\ lib.op = "activity" /\ lib.fn = "none"
    /\ \E high \in Filtered(Len(lib.accel)), low \in Filtered(Len(lib.accel)) :
          lib' = [lib EXCEPT !.fn = "metric_hfenplus", !.high = high, !.low = low,
                             !.out = metric_hfenplus(lib.accel, lib.fs, high, low, lib.trim_zero)]
    /\ UNCHANGED <<pc, error, registry, requested, dt, leg_length, gait, gait_aux, calls, started, acv, earlier>>

---------------------------------------------------------------------------
(* The preprocessing steps of skdh/gaitv3/substeps/s1_preprocessing.py:    *)
(* what V1Preprocess.predict and V2Preprocess.predict do with fs.          *)
(* Timestamps are in milliseconds, frequencies are cells in Hz; fs is None *)
(* or <<f>> for f Hz.                                                      *)

\* timestamp arrays: 50 Hz, 100 Hz, and an uneven one whose mean step is 25 ms
PreTimes == {<<0, 20, 40>>, <<0, 10, 20, 30>>, <<0, 20, 50>>}

\* 1 / mean(diff(time))
FsFromTime(time) == Rat(1000 * (Len(time) - 1), time[Len(time)] - time[1])

\* fs = 1 / mean(diff(time)) if fs is not None else fs
PredictFs(time, fs) == IF fs # None THEN FsFromTime(time) ELSE None

\* 0 < 2 * cutoff / fs < 1 for a positive rate fs
BelowNyquist(cutoff, fs) == 2 * cutoff * fs[3] < fs[2]

\* V1Preprocess.predict: the low-pass filter is skipped when the cutoff is
\* not below the Nyquist rate; dividing by an fs of None is a TypeError
V1Preprocess_predict(time, fs) ==
    LET fs_ == PredictFs(time, fs)
    IN  IF fs_ = None THEN [err |-> "TypeError", fs |-> None]
        ELSE [err |-> "", fs |-> fs_]

\* V2Preprocess.predict: butter is called with 2 * 3.0 / fs, 2 * 7.0 / fs,
\* 2 * filter_cutoff / fs (20 Hz) and 2 * 10.0 / fs, and refuses a critical
\* frequency that is not below 1
V2Preprocess_predict(time, fs) ==
    LET fs_ == PredictFs(time, fs)
    IN  IF fs_ = None THEN [err |-> "TypeError", fs |-> None]
        ELSE IF ~ BelowNyquist(20, fs_) THEN [err |-> "ValueError", fs |-> None]
        ELSE [err |-> "", fs |-> fs_]

PreprocessInputs ==
    [op : {"preprocess"}, time : PreTimes, fs : {None, <<50>>, <<100>>}, fn : {"none"},
     out : {[err |-> "", fs |-> None]}]

V1Predict ==
    /\ lib.op = "preprocess" /\ lib.fn = "none"
    /\ lib' = [lib EXCEPT !.fn = "V1", !.out = V1Preprocess_predict(lib.time, lib.fs)]
    /\ UNCHANGED <<pc, error, registry, requested, dt, leg_length, gait, gait_aux, calls, started, acv, earlier>>

V2Predict ==
    /\ lib.op = "preprocess" /\ lib.fn = "none"
    /\ lib' = [lib EXCEPT !.fn = "V2", !.out = V2Preprocess_predict(lib.time, lib.fs)]
    /\ UNCHANGED <<pc, error, registry, requested, dt, leg_length, gait, gait_aux, calls, started, acv, earlier>>

---------------------------------------------------------------------------
(* The sleep window of skimu/sleep/tso.py: what detect_tso and             *)
(* get_total_sleep_opportunity do once the rest mask is made.  The mask    *)
(* has one entry per 5 s block; the timestamp array holds the samples of   *)
(* the blocks and of the 60 blocks the rolling median drops.               *)

\* blocks of the rest masks
MaxMask == 4

TsoMasks == UNION {[1..n -> {0, 1}] : n \in 1..MaxMask}

\* the run of value v that starts at block i (0-based start, exclusive end)
RunEnd(mask, v, i) ==
    CHOOSE j \in (i + 1)..(Len(mask) + 1) :
        /\ \A k \in (i + 1)..(j - 1) : mask[k] = v
        /\ (j = Len(mask) + 1 \/ mask[j] # v)

\* arg_longest_bout(mask, v): the bounds of the longest run of v in mask (the
\* first of the longest ones), or (None, None) when mask holds no v
arg_longest_bout(mask, v) ==
    LET starts == {i \in 1..Len(mask) : mask[i] = v /\ (i = 1 \/ mask[i - 1] # v)}
    IN  IF starts = {} THEN <<None, None>>
        ELSE LET best == CHOOSE i \in starts :
                            \A k \in starts :
                                \/ RunEnd(mask, v, k) - k < RunEnd(mask, v, i) - i
                                \/ (RunEnd(mask, v, k) - k = RunEnd(mask, v, i) - i /\ i <= k)
             IN  <<(<<best - 1>>), (<<RunEnd(mask, v, best) - 1>>)>>

\* the timestamp [ms] of sample i of a recording of n samples at fs Hz
TimeAt(i, n, fs) == IF i < n THEN <<(i * 1000) \div fs>> ELSE None

\* the tail shared by the two routines: the bounds are moved up by half a
\* window (arg_start += 30 on None is a TypeError), then looked up in time
TsoBounds(bounds, fs, n) ==
    LET n5 == 5 * fs
    IN  IF bounds[1] = None \/ bounds[2] = None
        THEN [err |-> "TypeError", start |-> None, end |-> None,
              arg_start |-> None, arg_end |-> None]
        ELSE LET arg_start == bounds[1][1] + 30
                 arg_end   == bounds[2][1] + 30
             IN  IF TimeAt(arg_start * n5, n, fs) = None \/ TimeAt(arg_end * n5, n, fs) = None
                 THEN [err |-> "IndexError", start |-> None, end |-> None,
                       arg_start |-> None, arg_end |-> None]
                 ELSE [err |-> "", start |-> TimeAt(arg_start * n5, n, fs),
                       end |-> TimeAt(arg_end * n5, n, fs),
                       arg_start |-> <<arg_start>>, arg_end |-> <<arg_end>>]

\* get_total_sleep_opportunity from the mask tso (1 marks rest)
get_total_sleep_opportunity(tso, fs) ==
    TsoBounds(arg_longest_bout(tso, 1), fs, (Len(tso) + 60) * 5 * fs)

\* detect_tso from the mask rmd_dmnz (0 marks rest)
detect_tso(rmd_dmnz, fs) ==
    TsoBounds(arg_longest_bout(rmd_dmnz, 0), fs, (Len(rmd_dmnz) + 60) * 5 * fs)

TsoInputs ==
    [op : {"tso"}, mask : TsoMasks, fs : {1, 2}, fn : {"none"},
     out : {[err |-> "", start |-> None, end |-> None, arg_start |-> None, arg_end |-> None]}]

CallDetectTso ==
    /\ lib.op = "tso" /\ lib.fn = "none"
    /\ lib' = [lib EXCEPT !.fn = "detect_tso", !.out = detect_tso(lib.mask, lib.fs)]
    /\ UNCHANGED <<pc, error, registry, requested, dt, leg_length, gait, gait_aux, calls, started, acv, earlier>>

CallGetTotalSleepOpportunity ==
    /\ lib.op = "tso" /\ lib.fn = "none"
    /\ lib' = [lib EXCEPT !.fn = "get_total_sleep_opportunity",
                          !.out = get_total_sleep_opportunity(lib.mask, lib.fs)]
    /\ UNCHANGED <<pc, error, registry, requested, dt, leg_length, gait, gait_aux, calls, started, acv, earlier>>

LibInit ==
    /\ pc = "idle"
    /\ error = ""
    /\ registry = SourceRegistry
    /\ requested = {}
    /\ dt = 20
    /\ leg_length = None
    /\ gait = MakeGait(<<1>>, "short", 0)
    /\ gait_aux = MakeAux(<<1>>, "short", 0)
    /\ calls = [m \in AllNames |-> 0]
    /\ started = <<>>
    /\ acv = [op |-> "none"]
    /\ earlier = <<>>
    /\ \/ lib \in ActivityInputs
       \/ lib \in PreprocessInputs
       \/ lib \in TsoInputs

LibNext ==
    \/ CallEnmo
    \/ CallBfen
    \/ CallHfen
    \/ CallHfenplus
    \/ V1Predict
    \/ V2Predict
    \/ CallDetectTso
    \/ CallGetTotalSleepOpportunity

SpecLib == LibInit /\ [][LibNext]_vars

---------------------------------------------------------------------------
(* Properties of the activity, preprocessing and sleep routines (SpecLib) *)

\* C21: with trim_zero=True a call of metric_enmo, metric_bfen, metric_hfen or
\* metric_hfenplus on an array the filters accept returns, sample by sample,
\* the untrimmed value floored at zero, and does not raise
C21_TrimFloorsAtZero ==
    (lib.op = "activity" /\ lib.fn # "none" /\ lib.trim_zero
       /\ (lib.fn # "metric_enmo" => Len(lib.accel) > Padlen(4))
       /\ (lib.fn = "metric_bfen" => ButterOk(2 * 15, lib.fs))) =>
          LET n == Len(lib.accel)
              untrimmed ==
                  CASE lib.fn = "metric_enmo" ->
                          [i \in 1..n |-> IF lib.take_abs THEN Abs(norm(lib.accel)[i] - G)
                                          ELSE norm(lib.accel)[i] - G]
                    [] lib.fn \in {"metric_bfen", "metric_hfen"} -> norm(lib.high)
                    [] lib.fn = "metric_hfenplus" ->
                          [i \in 1..n |-> norm(lib.high)[i] + norm(lib.low)[i] - G]
          IN  /\ lib.out.err = ""
              /\ Len(lib.out.val) = n
              /\ \A i \in 1..n : lib.out.val[i] = Max(untrimmed[i], 0)

\* C22: V1Preprocess.predict and V2Preprocess.predict use and return the
\* sampling frequency 1 / mean(diff(time)) when fs is None, and the given fs
\* unchanged when fs is provided (on recordings sampled fast enough for the
\* filters of V2)
C22_FsFromTimestampsWhenNone ==
    (lib.op = "preprocess" /\ lib.fn # "none"
       /\ (lib.fn = "V2" =>
              BelowNyquist(20, IF lib.fs = None THEN FsFromTime(lib.time) ELSE Fin(lib.fs[1])))) =>
          /\ lib.out.err = ""
          /\ lib.out.fs = (IF lib.fs = None THEN FsFromTime(lib.time) ELSE Fin(lib.fs[1]))

\* C27: when the mask holds no rest block (arg_longest_bout returns None for
\* both bounds), detect_tso and get_total_sleep_opportunity return None for
\* start, end and both indices, and do not raise
C27_NoRestBoutGivesNone ==
    (lib.op = "tso" /\ lib.fn # "none"
       /\ arg_longest_bout(lib.mask, IF lib.fn = "detect_tso" THEN 0 ELSE 1) = <<None, None>>) =>
          /\ lib.out.err = ""
          /\ lib.out.start = None /\ lib.out.end = None
          /\ lib.out.arg_start = None /\ lib.out.arg_end = None

=============================================================================
